---- MODULE Spec2Model ----
(***************************************************************************)
(* Model of the harvest and delivery pipeline of the New Relic telemetry   *)
(* SDK for Go.                                                             *)
(*                                                                         *)
(*   - the splitting request builder (newRequestsInternal), run as a       *)
(*     machine with an explicit call stack, one frame per invocation;     *)
(*   - the delivery task (harvestRequest) with its retry policy            *)
(*     (response.needsRetry), its backoff timer and its context;           *)
(*   - the Harvester: producers recording under the mutex, HarvestNow      *)
(*     swapping the buffers out, building requests and running one        *)
(*     delivery task per request.                                          *)
(*                                                                         *)
(* Durations are in milliseconds.                                          *)
(***************************************************************************)
EXTENDS Integers, Sequences, FiniteSets, TLC

VARIABLES
    input,      \* splitter: the batches handed to the outermost call
    stack,      \* splitter: call stack of newRequestsInternal, top is last
    ret,        \* splitter: value returned by the call that just ended
    tooLarge,   \* splitter: the request bodies for which needsSplit answered true
    lastLength, \* splitter: ContentLength of the request requestNeedsSplit saw last
    dpc,        \* delivery: position of the task inside harvestRequest
    attempts,   \* delivery: the local variable attempts
    resp,       \* delivery: the response of the last postData
    backoff,    \* delivery: duration the timer tmr was created with
    timerFired, \* delivery: tmr.C holds a value
    ctxErr,     \* delivery: req.Context().Err(), "nil" while the context is live
    posts,      \* delivery: number of postData calls made for the request
    reqBody,    \* delivery: state of req.Body, "fresh" or "consumed"
    cancelLogs, \* delivery: number of "harvest cancelled or timed out" error logs
    h,          \* harvester: the receiver, "nil" or "harvester"
    commonAttributes, \* harvester: h.commonAttributes, NoAttributes when nil
    errorLogger,\* harvester: config.ErrorLogger is set
    lock,       \* harvester: holder of h.lock, "none" when it is free
    lastHarvest,\* harvester: h.lastHarvest
    rawMetrics, \* harvester: h.rawMetrics
    aggregatedMetrics, \* harvester: h.aggregatedMetrics, identity -> cell
    spans,      \* harvester: h.spans
    events,     \* harvester: h.events
    logs,       \* harvester: h.logs
    producer,   \* harvester: per producer thread, its position in a record call
    harvest,    \* harvester: per harvest thread, the locals of its HarvestNow call
    seq,        \* harvester: number of records appended so far (names the records)
    calls,      \* harvester: number of record calls made
    harvests,   \* harvester: number of HarvestNow calls made
    event,      \* harvester: what the last step did: the fields of h it read
                \* or wrote, the value a call returned, the error logger calls
    fate,       \* harvester: per appended record, what became of it
    harvestPeriod, \* routine: config.HarvestPeriod
    routine,    \* routine: the position of harvestRoutine and its jitter
    harvestTimeout, \* routine: config.HarvestTimeout
    clock,      \* routine: the time since the ticker was created
    ticks,      \* routine: the number of ticks the ticker has delivered
    executions, \* routine: the HarvestNow calls the ticks started, still running
    mem,        \* factory: the contents of the byte arrays, by array
    builder,    \* factory: per building thread, the locals of its buildRequest call
    requests,   \* factory: the requests built, each with its delivery task
    builds,     \* factory: number of buildRequest calls made
    factory,    \* factory: the fields of the requestFactory f
    call        \* factory: the options, the configured factory and the outcome
                \* of the last buildRequest call

splitVars == <<input, stack, ret, tooLarge, lastLength>>
deliverVars == <<dpc, attempts, resp, backoff, timerFired, ctxErr, posts, reqBody, cancelLogs>>
harvestVars == <<h, commonAttributes, errorLogger, lock, lastHarvest, rawMetrics, aggregatedMetrics,
                 spans, events, logs, producer, harvest, seq, calls, harvests,
                 event, fate>>
vars == <<input, stack, ret, tooLarge, lastLength,
          dpc, attempts, resp, backoff, timerFired, ctxErr, posts, reqBody, cancelLogs,
          h, commonAttributes, errorLogger, lock, lastHarvest, rawMetrics, aggregatedMetrics,
          spans, events, logs, producer, harvest, seq, calls, harvests,
          event, fate, harvestPeriod, routine, harvestTimeout, clock, ticks,
          executions,
          mem, builder, requests, builds, factory, call>>
routineVars == <<harvestPeriod, routine, harvestTimeout, clock, ticks, executions>>
factoryVars == <<mem, builder, requests, builds, factory, call>>
optionVars == <<factory, call>>

----------------------------------------------------------------------------
(* Bounds of the model.                                                    *)

\* An input to the splitter weighs one per entry plus one per record.
MaxSize == 6

\* The delivery task is followed up to this value of attempts.
MaxAttempts == 7

\* The producers make at most this many record calls in a run.
MaxCalls == 2

\* At most this many calls of HarvestNow are made in a run.
MaxHarvests == 2

\* A delivery task of a harvest is followed up to this value of attempts.
MaxRetries == 1

\* The number of BuildRequest calls followed.
MaxBuilds == 2

----------------------------------------------------------------------------
(* Threads of control that use one Harvester.                              *)

\* Threads that call the record entry points.
Producers == {"p1", "p2"}

\* Threads that call HarvestNow: harvestRoutine starts one per tick, and the
\* program may call HarvestNow itself.
HarvestThreads == {"h1", "h2"}

NoCall == [kind |-> "none"]

\* A producer outside any call.
IdleProducer == [pc |-> "idle", call |-> NoCall]

\* A harvest thread outside any call of HarvestNow.
IdleHarvest ==
    [pc |-> "idle", kind |-> "none", now |-> 0, ctxErr |-> "nil",
     lastHarvest |-> 0, taken |-> <<>>, aggregated |-> <<>>, reqs |-> <<>>,
     tasks |-> <<>>]

\* The threads that call BuildRequest on one factory.
Builders == {"b1", "b2"}

\* The buffers of the pool uncompressedBuffers and the compressed buffers of
\* the entries of the pool zippers, as many as there are builders.
UncompressedBuffers == {"u1", "u2"}
CompressedBuffers == {"z1", "z2"}

\* The byte arrays before any build: the buffers New() makes are empty.
NoArrays == [a \in UncompressedBuffers \cup CompressedBuffers |-> <<>>]

\* A thread that is not in buildRequest.
IdleBuilder ==
    [pc |-> "idle", batches |-> <<>>, decompressedBuffer |-> "none",
     poolEntry |-> "none"]

\* gzip.DefaultCompression
DefaultCompression == 0 - 1

\* newGzipPool(level): a pool whose New() makes writers of the level.
newGzipPool(level) == [level |-> level]

\* The factory literal of NewSpanRequestFactory, before configure.
DefaultFactory ==
    [apiKeyHeader |-> "Api-Key", apiKey |-> "", noDefaultKey |-> FALSE,
     scheme |-> "https", endpoint |-> "trace-api.newrelic.com",
     userAgent |-> <<"NewRelic-Go-TelemetrySDK">>,
     zippers |-> newGzipPool(DefaultCompression)]

\* No buildRequest call was made.
NoBuild == [options |-> <<>>, configured |-> DefaultFactory, outcome |-> "none"]

\* A thread of a program that has ended.
Dead == "dead"

\* No harvestRoutine was started.
NoRoutine == [pc |-> "none", jitter |-> 0]

\* time.Second and friends, in milliseconds.
Second == 1000

\* defaultHarvestPeriod and defaultHarvestTimeout of the Config.
defaultHarvestPeriod == 5 * Second
defaultHarvestTimeout == 15 * Second

\* h.commonAttributes when the Config had no CommonAttributes: nil.
NoAttributes == "nil"

\* A step that touches no field of the harvester, returns from no call and
\* logs nothing.
NoEvent ==
    [by |-> "none", fields |-> {}, held |-> FALSE, returns |-> "none",
     rec |-> NoCall, result |-> "none", logged |-> 0, entries |-> <<>>]

----------------------------------------------------------------------------
(* Payload entries, batches and the inputs of the splitter.                *)

\* A payload entry.  kind "common" is an entry without a split method (a
\* common block); kind "group" is a record group.  key names the entry of the
\* input it stems from: <<batch index, entry index>>.  A record is named by
\* the entry it was put in and its position there.
Entry(kind, b, e, n) ==
    [kind |-> kind, key |-> <<b, e>>, recs |-> [i \in 1..n |-> <<b, e, i>>]]

\* Shapes: -1 is a common block, n >= 0 a record group of n records.
ShapesOfWeight(w) == IF w = 1 THEN {-1, 0} ELSE {w - 1}

RECURSIVE BatchShapes(_)
BatchShapes(n) ==
    IF n = 0 THEN {<<>>}
    ELSE UNION { { <<s>> \o t : s \in ShapesOfWeight(w), t \in BatchShapes(n - w) }
                 : w \in 1..n }

RECURSIVE InputShapes(_)
InputShapes(n) ==
    IF n = 0 THEN {<<>>}
    ELSE UNION { { <<b>> \o t : b \in BatchShapes(w), t \in InputShapes(n - w) }
                 : w \in 1..n }

Materialize(shape) ==
    [b \in 1..Len(shape) |->
        [e \in 1..Len(shape[b]) |->
            IF shape[b][e] < 0 THEN Entry("common", b, e, 0)
            ELSE Entry("group", b, e, shape[b][e])]]

Inputs == { Materialize(s) : s \in UNION { InputShapes(n) : n \in 0..MaxSize } }

----------------------------------------------------------------------------
(* The splitter.                                                           *)

errNil == "nil"
ctxNil == "nil"

\* The zero value of response.
NoResponse == [statusCode |-> 0, err |-> FALSE, retryAfter |-> <<>>]
errBuild == "build request failed"
errUnableToSplit == "unable to split large payload further"

\* Variant of split that gives the first half the record in the middle of an
\* odd number of records.
splitCeil(recs) ==
    IF Len(recs) < 2 THEN <<>>
    ELSE LET middle == (Len(recs) + 1) \div 2
         IN  << SubSeq(recs, 1, middle), SubSeq(recs, middle + 1, Len(recs)) >>

\* Variant of split that leaves every record in the first half.
splitKeepsAll(recs) ==
    IF Len(recs) < 2 THEN <<>>
    ELSE << recs, <<>> >>

\* spanGroup.split, metricGroup.split, eventGroup.split, logGroup.split on the
\* record list of a group: nil (the empty tuple) below two records, else the
\* two halves around len/2.
split(recs) ==
    IF Len(recs) < 2 THEN <<>>
    ELSE LET middle == Len(recs) \div 2
         IN  << SubSeq(recs, 1, middle), SubSeq(recs, middle + 1, Len(recs)) >>

\* e.(splittablePayloadEntry): only record groups have a split method.
isPayloadSplittable(e) == e.kind = "group"

\* Variant of splitEntries that appends an entry that did not split to
\* payload1Entries only.
RECURSIVE splitEntriesLeftOnly(_)
splitEntriesLeftOnly(entries) ==
    IF entries = <<>> THEN [p1 |-> <<>>, p2 |-> <<>>, wasSplit |-> FALSE]
    ELSE LET e == Head(entries)
             rest == splitEntriesLeftOnly(Tail(entries))
             splitEntry == IF isPayloadSplittable(e) THEN split(e.recs) ELSE <<>>
         IN  IF splitEntry # <<>>
             THEN [p1 |-> <<[e EXCEPT !.recs = splitEntry[1]]>> \o rest.p1,
                   p2 |-> <<[e EXCEPT !.recs = splitEntry[2]]>> \o rest.p2,
                   wasSplit |-> TRUE]
             ELSE [p1 |-> <<e>> \o rest.p1,
                   p2 |-> rest.p2,
                   wasSplit |-> rest.wasSplit]

\* The loop over batches[0]: payload1Entries, payload2Entries, payloadWasSplit.
RECURSIVE splitEntries(_)
splitEntries(entries) ==
    IF entries = <<>> THEN [p1 |-> <<>>, p2 |-> <<>>, wasSplit |-> FALSE]
    ELSE LET e == Head(entries)
             rest == splitEntries(Tail(entries))
             splitEntry == IF isPayloadSplittable(e) THEN split(e.recs) ELSE <<>>
         IN  IF splitEntry # <<>>
             THEN [p1 |-> <<[e EXCEPT !.recs = splitEntry[1]]>> \o rest.p1,
                   p2 |-> <<[e EXCEPT !.recs = splitEntry[2]]>> \o rest.p2,
                   wasSplit |-> TRUE]
             ELSE [p1 |-> <<e>> \o rest.p1,
                   p2 |-> <<e>> \o rest.p2,
                   wasSplit |-> rest.wasSplit]

\* Variant of splitBatches that splits the entries of every batch of a list
\* of several batches, instead of dividing the list.
splitBatchesEntriesFirst(batches) ==
    IF Len(batches) >= 1
    THEN [s1 |-> [b \in 1..Len(batches) |-> splitEntries(batches[b]).p1],
          s2 |-> [b \in 1..Len(batches) |-> splitEntries(batches[b]).p2],
          payloadWasSplit |->
              \E b \in 1..Len(batches) : splitEntries(batches[b]).wasSplit]
    ELSE [s1 |-> <<>>, s2 |-> <<>>, payloadWasSplit |-> FALSE]

\* splitBatches1, splitBatches2 and payloadWasSplit for an oversize request.
splitBatches(batches) ==
    IF Len(batches) > 1
    THEN LET middle == Len(batches) \div 2
         IN  [s1 |-> SubSeq(batches, 1, middle),
              s2 |-> SubSeq(batches, middle + 1, Len(batches)),
              payloadWasSplit |-> TRUE]
    ELSE IF Len(batches) = 1
    THEN LET se == splitEntries(batches[1])
         IN  [s1 |-> <<se.p1>>, s2 |-> <<se.p2>>, payloadWasSplit |-> se.wasSplit]
    ELSE [s1 |-> <<>>, s2 |-> <<>>, payloadWasSplit |-> FALSE]

\* A stack frame of newRequestsInternal.
Frame(batches) ==
    [batches |-> batches, pc |-> "build", halves |-> <<>>, idx |-> 1, reqs |-> <<>>]

\* No request was built yet.
NoLength == 0 - 1

NoReturn == [set |-> FALSE, reqs |-> <<>>, err |-> errNil]
Return(reqs, err) == [set |-> TRUE, reqs |-> reqs, err |-> err]

\* Variant that returns the request whatever needsSplit answers.
returnsAlways(needsSplit) == TRUE

\* if !needsSplit(r) { return []*http.Request{r}, nil }
returnsSingleRequest(needsSplit) == ~needsSplit

\* Variant that returns no requests and no error.
unableToSplitSilent == Return(<<>>, errNil)

\* return nil, errUnableToSplit
unableToSplitReturn == Return(<<>>, errUnableToSplit)

Top == stack[Len(stack)]
Pop == SubSeq(stack, 1, Len(stack) - 1)
SetTop(f) == [stack EXCEPT ![Len(stack)] = f]

SplitDone == stack = <<>>

\* A call of newRequestsInternal on any input; the delivery task is not part of
\* the run.
InitSplit ==
    /\ input \in Inputs
    /\ stack = <<Frame(input)>>
    /\ ret = NoReturn
    /\ tooLarge = {}
    /\ dpc = "idle"
    /\ attempts = 0
    /\ resp = NoResponse
    /\ backoff = 0
    /\ timerFired = FALSE
    /\ ctxErr = ctxNil
    /\ posts = 0
    /\ reqBody = "fresh"
    /\ cancelLogs = 0
    /\ h = "nil"
    /\ commonAttributes = NoAttributes
    /\ errorLogger = FALSE
    /\ lock = "none"
    /\ lastHarvest = 0
    /\ rawMetrics = <<>>
    /\ aggregatedMetrics = <<>>
    /\ spans = <<>>
    /\ events = <<>>
    /\ logs = <<>>
    /\ producer = [p \in Producers |-> IdleProducer]
    /\ harvest = [t \in HarvestThreads |-> IdleHarvest]
    /\ seq = 0
    /\ calls = 0
    /\ harvests = 0
    /\ event = NoEvent
    /\ fate = <<>>
    /\ harvestTimeout = defaultHarvestTimeout
    /\ clock = 0
    /\ ticks = 0
    /\ executions = {}
    /\ harvestPeriod = 0
    /\ routine = NoRoutine
    /\ mem = NoArrays
    /\ builder = [b \in Builders |-> IdleBuilder]
    /\ requests = <<>>
    /\ builds = 0
    /\ lastLength = NoLength
    /\ factory = DefaultFactory
    /\ call = NoBuild

\* factory.BuildRequest(batches) returns an error.
BuildFails ==
    /\ stack # <<>> /\ Top.pc = "build"
    /\ stack' = Pop
    /\ ret' = Return(<<>>, errBuild)
    /\ UNCHANGED <<input, tooLarge, lastLength>>
    /\ UNCHANGED <<deliverVars, harvestVars, routineVars, factoryVars>>

\* factory.BuildRequest(batches) returns r; needsSplit(r) is evaluated and may
\* answer either way.  A request is its body, the batches it was built from;
\* no two calls of one run build the same body.
CheckSize ==
    /\ stack # <<>> /\ Top.pc = "build"
    /\ \E needsSplit \in BOOLEAN :
        /\ tooLarge' = IF needsSplit THEN tooLarge \cup {Top.batches} ELSE tooLarge
        /\ IF returnsSingleRequest(needsSplit)
           THEN /\ stack' = Pop
                /\ ret' = Return(<<Top.batches>>, errNil)
           ELSE /\ stack' = SetTop([Top EXCEPT !.pc = "split"])
                /\ ret' = ret
    /\ UNCHANGED <<input, lastLength>>
    /\ UNCHANGED <<deliverVars, harvestVars, routineVars, factoryVars>>

\* maxCompressedSizeBytes of the splitter.
maxCompressedSizeBytes == 1000000

\* The lengths of the built requests: around maxCompressedSizeBytes and
\* around 1 MiB.
ContentLengths == {999999, 1000000, 1048575, 1048576}

\* Variant of requestNeedsSplit with a bound of 1 MiB.
requestNeedsSplitMiB(r) == r.ContentLength >= 1048576

\* requestNeedsSplit, the predicate newRequests hands to newRequestsInternal.
requestNeedsSplit(r) == r.ContentLength >= maxCompressedSizeBytes

\* The same step in a call of newRequests: factory.BuildRequest(batches)
\* returns a request r of some length and requestNeedsSplit(r) is evaluated.
CheckSizeDefault ==
    /\ stack # <<>> /\ Top.pc = "build"
    /\ \E n \in ContentLengths :
        LET r == [ContentLength |-> n]
            needsSplit == requestNeedsSplit(r)
        IN  /\ lastLength' = n
            /\ tooLarge' = IF needsSplit THEN tooLarge \cup {Top.batches} ELSE tooLarge
            /\ IF returnsSingleRequest(needsSplit)
               THEN /\ stack' = Pop
                    /\ ret' = Return(<<Top.batches>>, errNil)
               ELSE /\ stack' = SetTop([Top EXCEPT !.pc = "split"])
                    /\ ret' = ret
    /\ UNCHANGED input
    /\ UNCHANGED <<deliverVars, harvestVars, routineVars, factoryVars>>

\* The oversize request is divided, along the batch list or along the entries
\* of the single batch.
SplitPayload ==
    /\ stack # <<>> /\ Top.pc = "split"
    /\ LET sb == splitBatches(Top.batches)
       IN  /\ sb.payloadWasSplit
           /\ stack' = SetTop([Top EXCEPT !.pc = "loop", !.halves = <<sb.s1, sb.s2>>])
    /\ UNCHANGED <<input, ret, tooLarge, lastLength>>
    /\ UNCHANGED <<deliverVars, harvestVars, routineVars, factoryVars>>

\* if !payloadWasSplit { return nil, errUnableToSplit }
UnableToSplit ==
    /\ stack # <<>> /\ Top.pc = "split"
    /\ ~splitBatches(Top.batches).payloadWasSplit
    /\ stack' = Pop
    /\ ret' = unableToSplitReturn
    /\ UNCHANGED <<input, tooLarge, lastLength>>
    /\ UNCHANGED <<deliverVars, harvestVars, routineVars, factoryVars>>

\* rs, err := newRequestsInternal(b, factory, needsSplit)
Recurse ==
    /\ stack # <<>> /\ Top.pc = "loop"
    /\ ~ret.set /\ Top.idx <= 2
    /\ stack' = Append(stack, Frame(Top.halves[Top.idx]))
    /\ UNCHANGED <<input, ret, tooLarge, lastLength>>
    /\ UNCHANGED <<deliverVars, harvestVars, routineVars, factoryVars>>

\* Variant of halfFailed that leaves out the half that failed and returns the
\* requests built so far.
halfFailedSkipped(reqs, err) == Return(reqs, errNil)

\* if nil != err { return nil, err } after the recursive call on a half: the
\* requests reqs built from the halves before it are not returned.
halfFailed(reqs, err) == Return(<<>>, err)

\* The recursive call came back: an error is passed on, requests are appended.
Receive ==
    /\ stack # <<>> /\ Top.pc = "loop"
    /\ ret.set
    /\ IF ret.err # errNil
       THEN /\ stack' = Pop
            /\ ret' = halfFailed(Top.reqs, ret.err)
       ELSE /\ stack' = SetTop([Top EXCEPT !.reqs = Top.reqs \o ret.reqs,
                                           !.idx = Top.idx + 1])
            /\ ret' = NoReturn
    /\ UNCHANGED <<input, tooLarge, lastLength>>
    /\ UNCHANGED <<deliverVars, harvestVars, routineVars, factoryVars>>

\* return reqs, nil
ReturnReqs ==
    /\ stack # <<>> /\ Top.pc = "loop"
    /\ ~ret.set /\ Top.idx = 3
    /\ stack' = Pop
    /\ ret' = Return(Top.reqs, errNil)
    /\ UNCHANGED <<input, tooLarge, lastLength>>
    /\ UNCHANGED <<deliverVars, harvestVars, routineVars, factoryVars>>

----------------------------------------------------------------------------
(* The retry policy.                                                       *)

Digits == {"0", "1", "2", "3", "4", "5", "6", "7", "8", "9"}
digitValue(c) ==
    CASE c = "0" -> 0 [] c = "1" -> 1 [] c = "2" -> 2 [] c = "3" -> 3 [] c = "4" -> 4
      [] c = "5" -> 5 [] c = "6" -> 6 [] c = "7" -> 7 [] c = "8" -> 8 [] c = "9" -> 9

\* unitMap of time.ParseDuration, for the units of a millisecond and more.
unitMap(u) ==
    CASE u = <<"m", "s">> -> 1
      [] u = <<"s">> -> Second
      [] u = <<"m">> -> 60 * Second
      [] u = <<"h">> -> 3600 * Second
      [] OTHER -> -1

\* leadingInt: the value of the leading digits of s and the rest of s.
RECURSIVE leadingInt(_, _)
leadingInt(s, x) ==
    IF s # <<>> /\ Head(s) \in Digits
    THEN leadingInt(Tail(s), x * 10 + digitValue(Head(s)))
    ELSE [v |-> x, rest |-> s]

\* leadingFraction: the leading digits of s as a numerator f over scale.
RECURSIVE leadingFraction(_, _, _)
leadingFraction(s, f, scale) ==
    IF s # <<>> /\ Head(s) \in Digits
    THEN leadingFraction(Tail(s), f * 10 + digitValue(Head(s)), scale * 10)
    ELSE [f |-> f, scale |-> scale, rest |-> s]

\* The unit: the characters up to the next '.' or digit.
RECURSIVE unitLength(_)
unitLength(s) ==
    IF s = <<>> \/ Head(s) = "." \/ Head(s) \in Digits THEN 0
    ELSE 1 + unitLength(Tail(s))

parseError == [ok |-> FALSE, d |-> 0]

\* The loop of time.ParseDuration over the groups [0-9]*(\.[0-9]*)?[a-z]+ of s,
\* d being the duration summed so far.
RECURSIVE parseGroups(_, _)
parseGroups(s, d) ==
    IF s = <<>> THEN [ok |-> TRUE, d |-> d]
    ELSE IF ~(Head(s) = "." \/ Head(s) \in Digits) THEN parseError
    ELSE LET li == leadingInt(s, 0)
             pre == Len(li.rest) # Len(s)
             hasDot == li.rest # <<>> /\ Head(li.rest) = "."
             lf == IF hasDot THEN leadingFraction(Tail(li.rest), 0, 1)
                   ELSE [f |-> 0, scale |-> 1, rest |-> li.rest]
             post == hasDot /\ Len(lf.rest) # Len(li.rest) - 1
             i == unitLength(lf.rest)
             unit == unitMap(SubSeq(lf.rest, 1, i))
         IN  IF ~pre /\ ~post THEN parseError
             ELSE IF i = 0 THEN parseError
             ELSE IF unit < 0 THEN parseError
             ELSE parseGroups(SubSeq(lf.rest, i + 1, Len(lf.rest)),
                              d + li.v * unit + (lf.f * unit) \div lf.scale)

\* time.ParseDuration(s): [-+]?([0-9]*(\.[0-9]*)?[a-z]+)+, and "0" alone.
ParseDuration(s) ==
    LET signed == s # <<>> /\ Head(s) \in {"-", "+"}
        neg == signed /\ Head(s) = "-"
        t == IF signed THEN Tail(s) ELSE s
    IN  IF t = <<"0">> THEN [ok |-> TRUE, d |-> 0]
        ELSE IF t = <<>> THEN parseError
        ELSE LET g == parseGroups(t, 0)
             IN  IF ~g.ok THEN parseError
                 ELSE [ok |-> TRUE, d |-> IF neg THEN 0 - g.d ELSE g.d]

backoffSequenceSeconds == <<0, 1, 2, 4, 8, 16>>

\* Variant of scheduledBackoff that starts the sequence over past its end.
scheduledBackoffWraps(n) ==
    backoffSequenceSeconds[(n % Len(backoffSequenceSeconds)) + 1] * Second

\* The head of needsRetry: the backoff scheduled for the attempt count.
scheduledBackoff(n) ==
    LET a == IF n >= Len(backoffSequenceSeconds)
             THEN Len(backoffSequenceSeconds) - 1
             ELSE n
    IN  backoffSequenceSeconds[a + 1] * Second

\* case 202, 200: success.
successStatuses == {202, 200}

\* Variants of noRetryStatuses: without 413, and with 500.
noRetryStatusesWithout413 == {400, 403, 404, 405, 411}
noRetryStatusesWith500 == {400, 403, 404, 405, 411, 413, 500}

\* case 400, 403, 404, 405, 411, 413: errors that should not retry.
noRetryStatuses == {400, 403, 404, 405, 411, 413}

\* Variant of rateLimitedBackoff that returns the Retry-After duration
\* whenever it parses.
rateLimitedBackoffNoMax(retryAfter, sched) ==
    LET p == IF retryAfter # <<>>
             THEN ParseDuration(retryAfter \o <<"s">>)
             ELSE parseError
    IN  IF retryAfter # <<>> /\ p.ok THEN p.d ELSE sched

\* case 429: the Retry-After header is honoured as a number of seconds when it
\* parses to more than the scheduled backoff.
rateLimitedBackoff(retryAfter, sched) ==
    LET p == IF retryAfter # <<>>
             THEN ParseDuration(retryAfter \o <<"s">>)
             ELSE parseError
    IN  IF retryAfter # <<>> /\ p.ok /\ p.d > sched THEN p.d ELSE sched

\* response.needsRetry(cfg, attempts)
needsRetry(r, n) ==
    LET sched == scheduledBackoff(n)
    IN  CASE r.statusCode \in successStatuses -> [retry |-> FALSE, backoff |-> 0]
          [] r.statusCode \in noRetryStatuses -> [retry |-> FALSE, backoff |-> 0]
          [] r.statusCode = 429 ->
                [retry |-> TRUE, backoff |-> rateLimitedBackoff(r.retryAfter, sched)]
          [] OTHER -> [retry |-> TRUE, backoff |-> sched]

----------------------------------------------------------------------------
(* The delivery task.                                                      *)

\* Values of the Retry-After header a server may send, character by character.
RetryAfterValues ==
    { <<>>,
      <<"0">>, <<"3">>, <<"2", "0">>, <<"+", "3">>, <<"-", "3">>,
      <<"1", ".", "5">>, <<"1", "m">>, <<"3", "s">>,
      <<"W", "e", "d", ",", " ", "2", "1", " ", "O", "c", "t">> }

StatusCodes == {200, 202, 204, 400, 403, 404, 405, 411, 413, 429, 500, 503}

\* What postData can return: an error of the transport (no status), or the
\* status and Retry-After header of a response; err is set unless the status
\* is 200 or 202.
TransportError == [statusCode |-> 0, err |-> TRUE, retryAfter |-> <<>>]
Responses ==
    {TransportError} \cup
    { [statusCode |-> c, err |-> c \notin {200, 202}, retryAfter |-> ra] :
        c \in StatusCodes, ra \in RetryAfterValues }

ContextErrors == {"context canceled", "context deadline exceeded"}

\* Variant of onContextDone that goes back to waiting for the timer.
onContextDoneWaits(err) == [dpc |-> "select", logs |-> 0]

\* Variant of onContextDone that returns without the diagnostic.
onContextDoneSilent(err) == [dpc |-> "done", logs |-> 0]

\* case <-req.Context().Done(): the timer is stopped, the diagnostic is logged
\* when the context reports an error, and the task returns.
onContextDone(err) ==
    [dpc |-> "done", logs |-> IF err # ctxNil THEN 1 ELSE 0]

\* harvestRequest is entered with a built request; the splitter is not part
\* of the run.
InitDeliver ==
    /\ input = <<>>
    /\ stack = <<>>
    /\ ret = NoReturn
    /\ tooLarge = {}
    /\ dpc = "post"
    /\ attempts = 0
    /\ resp = NoResponse
    /\ backoff = 0
    /\ timerFired = FALSE
    /\ ctxErr = ctxNil
    /\ posts = 0
    /\ reqBody = "fresh"
    /\ cancelLogs = 0
    /\ h = "nil"
    /\ commonAttributes = NoAttributes
    /\ errorLogger = FALSE
    /\ lock = "none"
    /\ lastHarvest = 0
    /\ rawMetrics = <<>>
    /\ aggregatedMetrics = <<>>
    /\ spans = <<>>
    /\ events = <<>>
    /\ logs = <<>>
    /\ producer = [p \in Producers |-> IdleProducer]
    /\ harvest = [t \in HarvestThreads |-> IdleHarvest]
    /\ seq = 0
    /\ calls = 0
    /\ harvests = 0
    /\ event = NoEvent
    /\ fate = <<>>
    /\ harvestTimeout = defaultHarvestTimeout
    /\ clock = 0
    /\ ticks = 0
    /\ executions = {}
    /\ harvestPeriod = 0
    /\ routine = NoRoutine
    /\ mem = NoArrays
    /\ builder = [b \in Builders |-> IdleBuilder]
    /\ requests = <<>>
    /\ builds = 0
    /\ lastLength = NoLength
    /\ factory = DefaultFactory
    /\ call = NoBuild

\* resp := postData(req, cfg.Client): the transport reads req.Body.
PostData ==
    /\ dpc = "post"
    /\ \E r \in Responses : resp' = r
    /\ posts' = posts + 1
    /\ reqBody' = "consumed"
    /\ dpc' = "classify"
    /\ UNCHANGED <<attempts, backoff, timerFired, ctxErr, cancelLogs>>
    /\ UNCHANGED <<splitVars, harvestVars, routineVars, factoryVars>>

\* retry, backoff := resp.needsRetry(cfg, attempts); the task returns, or
\* creates the timer tmr := time.NewTimer(backoff).
Classify ==
    /\ dpc = "classify"
    /\ LET nr == needsRetry(resp, attempts)
       IN  IF ~nr.retry
           THEN /\ dpc' = "done"
                /\ UNCHANGED <<backoff, timerFired>>
           ELSE /\ dpc' = "select"
                /\ backoff' = nr.backoff
                /\ timerFired' = FALSE
    /\ UNCHANGED <<attempts, resp, ctxErr, posts, reqBody, cancelLogs>>
    /\ UNCHANGED <<splitVars, harvestVars, routineVars, factoryVars>>

\* case <-tmr.C: attempts++ and the body is reattached from req.GetBody().
TimerCase ==
    /\ attempts < MaxAttempts
    /\ attempts' = attempts + 1
    /\ reqBody' = "fresh"
    /\ dpc' = "post"
    /\ UNCHANGED <<resp, backoff, ctxErr, posts, cancelLogs>>

\* case <-req.Context().Done()
ContextCase(err) ==
    /\ dpc' = onContextDone(err).dpc
    /\ cancelLogs' = cancelLogs + onContextDone(err).logs
    /\ UNCHANGED <<attempts, resp, backoff, posts, reqBody>>

\* The timer expires before the task has reached the select statement.
TimerFiresEarly ==
    /\ dpc = "select" /\ ~timerFired
    /\ timerFired' = TRUE
    /\ UNCHANGED <<dpc, attempts, resp, backoff, ctxErr, posts, reqBody, cancelLogs>>
    /\ UNCHANGED <<splitVars, harvestVars, routineVars, factoryVars>>

\* The select statement finds no channel ready and the task blocks in it.
SelectBlocks ==
    /\ dpc = "select" /\ ~timerFired /\ ctxErr = ctxNil
    /\ dpc' = "parked"
    /\ UNCHANGED <<attempts, resp, backoff, timerFired, ctxErr, posts, reqBody, cancelLogs>>
    /\ UNCHANGED <<splitVars, harvestVars, routineVars, factoryVars>>

\* The select statement finds tmr.C ready (it picks among the ready cases).
SelectTimer ==
    /\ dpc = "select" /\ timerFired
    /\ TimerCase
    /\ UNCHANGED timerFired
    /\ UNCHANGED <<splitVars, harvestVars, routineVars, factoryVars>>

\* The select statement finds the context done.
SelectContext ==
    /\ dpc = "select" /\ ctxErr # ctxNil
    /\ ContextCase(ctxErr)
    /\ UNCHANGED <<timerFired, ctxErr>>
    /\ UNCHANGED <<splitVars, harvestVars, routineVars, factoryVars>>

\* The timer expires while the task is blocked in select, which wakes it.
TimerWakes ==
    /\ dpc = "parked" /\ ~timerFired
    /\ timerFired' = TRUE
    /\ TimerCase
    /\ UNCHANGED <<splitVars, harvestVars, routineVars, factoryVars>>

\* The context is cancelled or times out while the task is not blocked.
ContextEnds ==
    /\ dpc \in {"post", "classify", "select"} /\ ctxErr = ctxNil
    /\ \E e \in ContextErrors : ctxErr' = e
    /\ UNCHANGED <<dpc, attempts, resp, backoff, timerFired, posts, reqBody, cancelLogs>>
    /\ UNCHANGED <<splitVars, harvestVars, routineVars, factoryVars>>

\* The context is cancelled or times out while the task is blocked in select,
\* which wakes it.
ContextWakes ==
    /\ dpc = "parked" /\ ctxErr = ctxNil
    /\ \E e \in ContextErrors :
        /\ ctxErr' = e
        /\ ContextCase(e)
    /\ UNCHANGED timerFired
    /\ UNCHANGED <<splitVars, harvestVars, routineVars, factoryVars>>

----------------------------------------------------------------------------
(* The Harvester: record entry points.                                     *)

\* The spans, events, logs and counts a producer may hand to a record call.
\* A float is named by its class.
Spans == { [kind |-> "span", TraceID |-> t, ID |-> i] :
             t \in {"", "trace"}, i \in {"", "id"} }
Events == { [kind |-> "event", EventType |-> e] : e \in {"", "type"} }
Logs == { [kind |-> "log", Message |-> m] : m \in {"", "message"} }
Floats == {"finite", "NaN", "+Inf", "-Inf"}
Counts == { [kind |-> "metric", type |-> "count", Value |-> v] : v \in Floats }

\* Gauges, with the zero time.Time or a time that was set as Timestamp.
Gauges ==
    { [kind |-> "metric", type |-> "gauge", Value |-> v, Timestamp |-> ts] :
        v \in Floats, ts \in {"zero", "set"} }

\* Summaries; "negative" is the class of the finite floats below zero.
Summaries ==
    { [kind |-> "metric", type |-> "summary", Count |-> c, Sum |-> sum,
       Min |-> mn, Max |-> mx] :
        c \in {"finite", "negative", "NaN"}, sum \in {"finite", "+Inf"},
        mn \in {"finite", "NaN", "-Inf"}, mx \in {"finite", "NaN", "+Inf"} }

\* The one metric identity (name and attributes) the aggregator is used with.
Identities == {"requests"}
DataPoints == { [kind |-> "aggregated", identity |-> i] : i \in Identities }

errSpanIDUnset == "span id must be set"
errTraceIDUnset == "trace id must be set"
errEventTypeUnset == "eventType must be set"
errLogMessageUnset == "log message must be set"

\* Variant of validateSpan without the check of the span id.
validateSpanNoID(s) == IF s.TraceID = "" THEN errTraceIDUnset ELSE errNil

\* The checks RecordSpan makes before it takes the lock.
validateSpan(s) ==
    IF s.TraceID = "" THEN errTraceIDUnset
    ELSE IF s.ID = "" THEN errSpanIDUnset
    ELSE errNil

\* The check RecordEvent makes before it takes the lock.
validateEvent(e) == IF e.EventType = "" THEN errEventTypeUnset ELSE errNil

\* The check RecordLog makes before it takes the lock.
validateLog(l) == IF l.Message = "" THEN errLogMessageUnset ELSE errNil

\* isFloatValid: NaN and the infinities are invalid.
isFloatValid(v) == v \notin {"NaN", "+Inf", "-Inf"}

\* math.IsInf(v, 0)
IsInf(v) == v \in {"+Inf", "-Inf"}

\* Count.validate: the fields to log for an invalid count, nil for a valid one.
validateCount(m) == IF isFloatValid(m.Value) THEN "nil" ELSE "invalid count value"

\* Gauge.validate: the value is tested, the timestamp is not.
validateGauge(m) == IF isFloatValid(m.Value) THEN "nil" ELSE "invalid gauge field"

\* Summary.validate: Count and Sum go through isFloatValid, Min and Max must
\* not be an infinity.
validateSummary(m) ==
    IF ~isFloatValid(m.Count) \/ ~isFloatValid(m.Sum) THEN "invalid summary field"
    ELSE IF IsInf(m.Min) \/ IsInf(m.Max) THEN "invalid summary field"
    ELSE "nil"

\* m.validate() of the Metric interface.
validate(m) ==
    CASE m.type = "count" -> validateCount(m)
      [] m.type = "gauge" -> validateGauge(m)
      [] m.type = "summary" -> validateSummary(m)

\* cfg.logError(fields): the number of times the error logger is invoked.
logError == IF errorLogger THEN 1 ELSE 0

\* Variant of lockedBy in which h.lock.Lock() was left out: the thread goes on
\* without the mutex.
lockedByNoOne(th) == lock

\* h.lock.Lock() returning in thread th.
lockedBy(th) == th

\* h.lock.Unlock().
unlocked == "none"

\* The record appended by the next append under the lock.
NewRecord(c) == [id |-> seq + 1, rec |-> c]

\* Variant of append that puts the record at the front of the buffer.
appendInFront(buffer, r) == <<r>> \o buffer

\* append(buffer, r)
append(buffer, r) == Append(buffer, r)

\* A step of thread th that reads or writes fields of the harvester.
Access(th, fields) ==
    [NoEvent EXCEPT !.by = th, !.fields = fields, !.held = lock = th]

\* The entry point op, called with record c, returns result in thread th,
\* having touched fields and invoked the error logger logged times.
Returned(th, op, c, result, fields, logged) ==
    [by |-> th, fields |-> fields, held |-> lock = th, returns |-> op,
     rec |-> c, result |-> result, logged |-> logged, entries |-> <<>>]

\* Variant of isNil for entry points without the test of the receiver.
isNilUnchecked(receiver) == FALSE

\* if nil == h, the test every entry point starts with.
isNil(receiver) == receiver = "nil"

\* A record call is entered by producer p: the receiver and the record are
\* checked, and a call that goes on is about to take the lock.
Enter(p, op, c, err) ==
    /\ producer[p].pc = "idle"
    /\ calls < MaxCalls
    /\ calls' = calls + 1
    /\ producer' = [producer EXCEPT ![p] =
          IF isNil(h) \/ err # errNil THEN IdleProducer
          ELSE [pc |-> "lock", call |-> c]]
    /\ event' = IF isNil(h) THEN Returned(p, op, c, errNil, {}, 0)
                ELSE IF err # errNil THEN Returned(p, op, c, err, {}, 0)
                ELSE NoEvent
    /\ UNCHANGED <<h, commonAttributes, errorLogger, lock, lastHarvest, rawMetrics, aggregatedMetrics,
                   spans, events, logs, harvest, seq, harvests, fate>>

\* RecordSpan up to h.lock.Lock().
RecordSpan(p) ==
    /\ \E s \in Spans : Enter(p, "RecordSpan", s, validateSpan(s))
    /\ UNCHANGED <<splitVars, deliverVars, routineVars, factoryVars>>

\* RecordEvent up to h.lock.Lock().
RecordEvent(p) ==
    /\ \E e \in Events : Enter(p, "RecordEvent", e, validateEvent(e))
    /\ UNCHANGED <<splitVars, deliverVars, routineVars, factoryVars>>

\* RecordLog up to h.lock.Lock().
RecordLog(p) ==
    /\ \E l \in Logs : Enter(p, "RecordLog", l, validateLog(l))
    /\ UNCHANGED <<splitVars, deliverVars, routineVars, factoryVars>>

\* RecordMetric up to h.lock.Lock(): the metric is validated under the lock.
RecordMetric(p) ==
    /\ \E m \in Counts : Enter(p, "RecordMetric", m, errNil)
    /\ UNCHANGED <<splitVars, deliverVars, routineVars, factoryVars>>

\* RecordMetric called with a Gauge or a Summary, up to h.lock.Lock().
RecordGaugeOrSummary(p) ==
    /\ \E m \in Gauges \cup Summaries : Enter(p, "RecordMetric", m, errNil)
    /\ UNCHANGED <<splitVars, deliverVars, routineVars, factoryVars>>

\* An operation of an aggregated count (Increment, Add) up to h.lock.Lock().
AggregatedCount(p) ==
    /\ \E d \in DataPoints : Enter(p, "AggregatedCount", d, errNil)
    /\ UNCHANGED <<splitVars, deliverVars, routineVars, factoryVars>>

\* h.MetricAggregator(): nil for a nil harvester, no access to the state.
MetricAggregator(p) ==
    /\ producer[p].pc = "idle"
    /\ calls < MaxCalls
    /\ calls' = calls + 1
    /\ event' = Returned(p, "MetricAggregator", NoCall,
                         IF isNil(h) THEN errNil ELSE "aggregator", {}, 0)
    /\ UNCHANGED <<producer, h, commonAttributes, errorLogger, lock, lastHarvest, rawMetrics, aggregatedMetrics,
                   spans, events, logs, harvest, seq, harvests, fate>>
    /\ UNCHANGED <<splitVars, deliverVars, routineVars, factoryVars>>

\* h.lock.Lock() in a record call: the producer waits until the lock is free.
ProducerLock(p) ==
    /\ producer[p].pc = "lock"
    /\ lock = "none"
    /\ lock' = lockedBy(p)
    /\ producer' = [producer EXCEPT ![p].pc = "locked"]
    /\ event' = NoEvent
    /\ UNCHANGED <<h, commonAttributes, errorLogger, lastHarvest, rawMetrics, aggregatedMetrics,
                   spans, events, logs, harvest, seq, calls, harvests, fate>>
    /\ UNCHANGED <<splitVars, deliverVars, routineVars, factoryVars>>

\* The producer leaves its record call, which touched fields under the lock;
\* the deferred h.lock.Unlock() runs.
Leave(p, op, result, fields, logged) ==
    /\ producer' = [producer EXCEPT ![p] = IdleProducer]
    /\ lock' = unlocked
    /\ event' = Returned(p, op, producer[p].call, result, fields, logged)

\* The record of producer p gets its name and is followed from now on.
Named(p) ==
    /\ seq' = seq + 1
    /\ fate' = Append(fate, "held")

\* h.spans = append(h.spans, s), return nil.
appendSpan(p) ==
    /\ producer[p].pc = "locked" /\ producer[p].call.kind = "span"
    /\ spans' = append(spans, NewRecord(producer[p].call))
    /\ Named(p)
    /\ Leave(p, "RecordSpan", errNil, {"spans"}, 0)
    /\ UNCHANGED <<h, commonAttributes, errorLogger, lastHarvest, rawMetrics, aggregatedMetrics,
                   events, logs, harvest, calls, harvests>>
    /\ UNCHANGED <<splitVars, deliverVars, routineVars, factoryVars>>

\* h.events = append(h.events, e), return nil.
appendEvent(p) ==
    /\ producer[p].pc = "locked" /\ producer[p].call.kind = "event"
    /\ events' = append(events, NewRecord(producer[p].call))
    /\ Named(p)
    /\ Leave(p, "RecordEvent", errNil, {"events"}, 0)
    /\ UNCHANGED <<h, commonAttributes, errorLogger, lastHarvest, rawMetrics, aggregatedMetrics,
                   spans, logs, harvest, calls, harvests>>
    /\ UNCHANGED <<splitVars, deliverVars, routineVars, factoryVars>>

\* h.logs = append(h.logs, l), return nil.
appendLog(p) ==
    /\ producer[p].pc = "locked" /\ producer[p].call.kind = "log"
    /\ logs' = append(logs, NewRecord(producer[p].call))
    /\ Named(p)
    /\ Leave(p, "RecordLog", errNil, {"logs"}, 0)
    /\ UNCHANGED <<h, commonAttributes, errorLogger, lastHarvest, rawMetrics, aggregatedMetrics,
                   spans, events, harvest, calls, harvests>>
    /\ UNCHANGED <<splitVars, deliverVars, routineVars, factoryVars>>

\* Variant of invalidMetric that logs and then appends the metric all the same.
invalidMetricKept(m) == [logged |-> logError, kept |-> TRUE]

\* RecordMetric on a metric whose validate() returned fields: they are logged
\* and the call returns.
invalidMetric(m) == [logged |-> logError, kept |-> FALSE]

\* RecordMetric under the lock: validate, then log or append.
appendMetric(p) ==
    /\ producer[p].pc = "locked" /\ producer[p].call.kind = "metric"
    /\ LET m == producer[p].call
           outcome == IF validate(m) # "nil" THEN invalidMetric(m)
                      ELSE [logged |-> 0, kept |-> TRUE]
       IN  /\ IF outcome.kept
              THEN /\ rawMetrics' = append(rawMetrics, NewRecord(m))
                   /\ Named(p)
              ELSE UNCHANGED <<rawMetrics, seq, fate>>
           /\ Leave(p, "RecordMetric", "none",
                    IF outcome.kept THEN {"rawMetrics"} ELSE {}, outcome.logged)
    /\ UNCHANGED <<h, commonAttributes, errorLogger, lastHarvest, aggregatedMetrics,
                   spans, events, logs, harvest, calls, harvests>>
    /\ UNCHANGED <<splitVars, deliverVars, routineVars, factoryVars>>

\* findOrCreateMetric(identity): the cell of the identity, made when missing.
findOrCreateMetric(identity) ==
    IF identity \in DOMAIN aggregatedMetrics
    THEN aggregatedMetrics
    ELSE [i \in DOMAIN aggregatedMetrics \cup {identity} |->
            IF i = identity THEN <<>> ELSE aggregatedMetrics[i]]

\* An aggregated count under the lock: the cell is found or created and the
\* data point is added to it.  A cell is the list of its data points.
addDataPoint(p) ==
    /\ producer[p].pc = "locked" /\ producer[p].call.kind = "aggregated"
    /\ LET d == producer[p].call
           cells == findOrCreateMetric(d.identity)
       IN  aggregatedMetrics' =
             [cells EXCEPT ![d.identity] = Append(@, NewRecord(d))]
    /\ Named(p)
    /\ Leave(p, "AggregatedCount", "none", {"aggregatedMetrics"}, 0)
    /\ UNCHANGED <<h, commonAttributes, errorLogger, lastHarvest, rawMetrics,
                   spans, events, logs, harvest, calls, harvests>>
    /\ UNCHANGED <<splitVars, deliverVars, routineVars, factoryVars>>

----------------------------------------------------------------------------
(* The Harvester: HarvestNow.                                              *)

\* The order in which HarvestNow swaps the kinds out.
NextKind(kind) ==
    CASE kind = "metrics" -> "spans"
      [] kind = "spans" -> "events"
      [] kind = "events" -> "logs"
      [] kind = "logs" -> "none"

\* HarvestNow is called in thread t: a nil receiver returns at once; otherwise
\* the context is derived with the harvest timeout and swapOutMetrics is
\* called with time.Now().
HarvestNow(t) ==
    /\ harvest[t].pc \in {"idle", "returned"}
    /\ harvests < MaxHarvests
    /\ harvests' = harvests + 1
    /\ harvest' = [harvest EXCEPT ![t] =
          IF isNil(h) THEN [IdleHarvest EXCEPT !.pc = "returned"]
          ELSE [IdleHarvest EXCEPT !.pc = "lock", !.kind = "metrics",
                                   !.now = harvests + 1]]
    /\ event' = IF isNil(h) THEN Returned(t, "HarvestNow", NoCall, "none", {}, 0)
                ELSE NoEvent
    /\ UNCHANGED <<h, commonAttributes, errorLogger, lock, lastHarvest, rawMetrics, aggregatedMetrics,
                   spans, events, logs, producer, seq, calls, fate>>
    /\ UNCHANGED <<splitVars, deliverVars, routineVars, factoryVars>>

\* h.lock.Lock() in a swap-out: the thread waits until the lock is free.
SwapLock(t) ==
    /\ harvest[t].pc = "lock"
    /\ lock = "none"
    /\ lock' = lockedBy(t)
    /\ harvest' = [harvest EXCEPT ![t].pc = "locked"]
    /\ event' = NoEvent
    /\ UNCHANGED <<h, commonAttributes, errorLogger, lastHarvest, rawMetrics, aggregatedMetrics,
                   spans, events, logs, producer, seq, calls, harvests, fate>>
    /\ UNCHANGED <<splitVars, deliverVars, routineVars, factoryVars>>

\* Variant of swapped that leaves the buffer of the harvester as it is.
swappedKept(buffer) == buffer

\* h.spans = nil (h.rawMetrics = nil, make(map...), ...): what the field of the
\* harvester holds after the swap-out took its value.
swapped(buffer) == <<>>

\* h.lock.Unlock() in a swap-out, before anything is built.
swapOutUnlock(t) == unlocked

\* The thread leaves the locked region of a swap-out with what it took: from
\* an empty buffer nothing is built (return nil) and the next swap-out, or
\* the dispatch of the requests, follows.
AfterSwap(t, taken, aggregated, last) ==
    IF taken = <<>> /\ aggregated = <<>>
    THEN [harvest[t] EXCEPT
            !.pc = IF NextKind(harvest[t].kind) = "none" THEN "dispatch" ELSE "lock",
            !.kind = NextKind(harvest[t].kind)]
    ELSE [harvest[t] EXCEPT !.pc = "build", !.lastHarvest = last,
                            !.taken = taken, !.aggregated = aggregated]

\* The locked region of swapOutMetrics.
swapOutMetrics(t) ==
    /\ harvest[t].pc = "locked" /\ harvest[t].kind = "metrics"
    /\ harvest' = [harvest EXCEPT ![t] =
          AfterSwap(t, rawMetrics, aggregatedMetrics, lastHarvest)]
    /\ lastHarvest' = harvest[t].now
    /\ rawMetrics' = swapped(rawMetrics)
    /\ aggregatedMetrics' = swapped(aggregatedMetrics)
    /\ lock' = swapOutUnlock(t)
    /\ event' = Access(t, {"lastHarvest", "rawMetrics", "aggregatedMetrics"})
    /\ UNCHANGED <<h, commonAttributes, errorLogger, spans, events, logs, producer, seq, calls,
                   harvests, fate>>
    /\ UNCHANGED <<splitVars, deliverVars, routineVars, factoryVars>>

\* The locked region of swapOutSpans.
swapOutSpans(t) ==
    /\ harvest[t].pc = "locked" /\ harvest[t].kind = "spans"
    /\ harvest' = [harvest EXCEPT ![t] = AfterSwap(t, spans, <<>>, 0)]
    /\ spans' = swapped(spans)
    /\ lock' = swapOutUnlock(t)
    /\ event' = Access(t, {"spans"})
    /\ UNCHANGED <<h, commonAttributes, errorLogger, lastHarvest, rawMetrics, aggregatedMetrics,
                   events, logs, producer, seq, calls, harvests, fate>>
    /\ UNCHANGED <<splitVars, deliverVars, routineVars, factoryVars>>

\* The locked region of swapOutEvents.
swapOutEvents(t) ==
    /\ harvest[t].pc = "locked" /\ harvest[t].kind = "events"
    /\ harvest' = [harvest EXCEPT ![t] = AfterSwap(t, events, <<>>, 0)]
    /\ events' = swapped(events)
    /\ lock' = swapOutUnlock(t)
    /\ event' = Access(t, {"events"})
    /\ UNCHANGED <<h, commonAttributes, errorLogger, lastHarvest, rawMetrics, aggregatedMetrics,
                   spans, logs, producer, seq, calls, harvests, fate>>
    /\ UNCHANGED <<splitVars, deliverVars, routineVars, factoryVars>>

\* The locked region of swapOutLogs.
swapOutLogs(t) ==
    /\ harvest[t].pc = "locked" /\ harvest[t].kind = "logs"
    /\ harvest' = [harvest EXCEPT ![t] = AfterSwap(t, logs, <<>>, 0)]
    /\ logs' = swapped(logs)
    /\ lock' = swapOutUnlock(t)
    /\ event' = Access(t, {"logs"})
    /\ UNCHANGED <<h, commonAttributes, errorLogger, lastHarvest, rawMetrics, aggregatedMetrics,
                   spans, events, producer, seq, calls, harvests, fate>>
    /\ UNCHANGED <<splitVars, deliverVars, routineVars, factoryVars>>

\* The metric a cell is reported as: the count m.c, made of its data points.
\* (Only counts are aggregated here, so m.s and m.g are nil.)
CellMetric(identity, cell) ==
    [id |-> 0, rec |-> [kind |-> "count", identity |-> identity, points |-> cell]]

\* for _, m := range aggregatedMetrics: the cells appended to rawMetrics.
RECURSIVE foldCells(_, _)
foldCells(cells, ids) ==
    IF ids = {} THEN <<>>
    ELSE LET i == CHOOSE x \in ids : TRUE
         IN  <<CellMetric(i, cells[i])>> \o foldCells(cells, ids \ {i})

\* The names of the records an item of a payload stands for.
IdsOf(item) ==
    IF item.id = 0 THEN { item.rec.points[j].id : j \in DOMAIN item.rec.points }
    ELSE {item.id}
Ids(items) == UNION { IdsOf(items[j]) : j \in DOMAIN items }

\* buildSplitRequests on the one batch of a swap-out, whose only entry with a
\* split method is the group of items: the requests newRequestsInternal
\* returns when needsSplit answers true for more than limit items.
RECURSIVE buildSplitRequests(_, _)
buildSplitRequests(items, limit) ==
    IF Len(items) <= limit THEN [reqs |-> <<items>>, err |-> errNil]
    ELSE LET splitEntry == split(items)
         IN  IF splitEntry = <<>> THEN [reqs |-> <<>>, err |-> errUnableToSplit]
             ELSE LET rs1 == buildSplitRequests(splitEntry[1], limit)
                      rs2 == buildSplitRequests(splitEntry[2], limit)
                  IN  IF rs1.err # errNil THEN [reqs |-> <<>>, err |-> rs1.err]
                      ELSE IF rs2.err # errNil THEN [reqs |-> <<>>, err |-> rs2.err]
                      ELSE [reqs |-> rs1.reqs \o rs2.reqs, err |-> errNil]

SetFate(ids, outcome) ==
    [i \in DOMAIN fate |-> IF i \in ids THEN outcome ELSE fate[i]]

\* The thread goes on to the next swap-out, or to the dispatch of the requests.
Advance(t, reqs) ==
    harvest' = [harvest EXCEPT
        ![t].pc = IF NextKind(harvest[t].kind) = "none" THEN "dispatch" ELSE "lock",
        ![t].kind = NextKind(harvest[t].kind),
        ![t].lastHarvest = 0,
        ![t].taken = <<>>,
        ![t].aggregated = <<>>,
        ![t].reqs = @ \o reqs]

\* The common block of a swap-out: the attributes under the key "common".
commonBlock(attributes) == [key |-> "common", attributes |-> attributes]

\* The entries of the one batch a swap-out hands to buildSplitRequests: the
\* metrics always follow a common block, the spans and the logs follow one
\* when h.commonAttributes is not nil, the events never do.
swapOutEntries(kind) ==
    IF kind = "metrics" THEN <<commonBlock(commonAttributes), [key |-> kind]>>
    ELSE IF kind \in {"spans", "logs"} /\ commonAttributes # NoAttributes
    THEN <<commonBlock(commonAttributes), [key |-> kind]>>
    ELSE <<[key |-> kind]>>

\* Variant of swapOutError that returns nil without a call of the logger.
swapOutErrorSilent(err) == 0

\* if nil != err { h.config.logError(...); return nil } in a swap-out: the
\* number of calls of the error logger.
swapOutError(err) == logError

\* The part of a swap-out outside the lock: the aggregated cells are folded
\* into the metrics taken and the requests are built, or the error is logged
\* and the data dropped.
Build(t) ==
    /\ harvest[t].pc = "build"
    /\ LET items == harvest[t].taken \o
                    foldCells(harvest[t].aggregated, DOMAIN harvest[t].aggregated)
       IN  \E limit \in 0..MaxCalls, buildFails \in BOOLEAN :
                  LET rs == IF buildFails THEN [reqs |-> <<>>, err |-> errBuild]
                            ELSE buildSplitRequests(items, limit)
                  IN  /\ Advance(t, rs.reqs)
                      /\ fate' = IF rs.err # errNil THEN SetFate(Ids(items), "splitter")
                                 ELSE fate
                      /\ event' = IF rs.err # errNil
                                  THEN [NoEvent EXCEPT !.by = t,
                                                       !.logged = swapOutError(rs.err)]
                                  ELSE [NoEvent EXCEPT
                                            !.entries = swapOutEntries(harvest[t].kind)]
    /\ UNCHANGED <<h, commonAttributes, errorLogger, lock, lastHarvest, rawMetrics, aggregatedMetrics,
                   spans, events, logs, producer, seq, calls, harvests>>
    /\ UNCHANGED <<splitVars, deliverVars, routineVars, factoryVars>>

\* A delivery task as started by go harvestRequest(httpRequest, &h.config, &wg).
NewTask(req) ==
    [st |-> "post", attempts |-> 0, backoff |-> 0, timerFired |-> FALSE, req |-> req]

\* Variant of dispatched that starts a task for the first request only.
dispatchedFirstOnly(reqs) ==
    [i \in 1..(IF reqs = <<>> THEN 0 ELSE 1) |-> NewTask(reqs[i])]

\* for _, req := range reqs: one task per request, counted in wg.
dispatched(reqs) == [i \in 1..Len(reqs) |-> NewTask(reqs[i])]

\* The loop that starts the delivery tasks.
Dispatch(t) ==
    /\ harvest[t].pc = "dispatch"
    /\ harvest' = [harvest EXCEPT ![t].pc = "wait",
                                  ![t].reqs = <<>>,
                                  ![t].tasks = dispatched(harvest[t].reqs)]
    /\ event' = NoEvent
    /\ UNCHANGED <<h, commonAttributes, errorLogger, lock, lastHarvest, rawMetrics, aggregatedMetrics,
                   spans, events, logs, producer, seq, calls, harvests, fate>>
    /\ UNCHANGED <<splitVars, deliverVars, routineVars, factoryVars>>

\* The states in which a delivery task has returned (wg.Done() has run).
TaskReturned == {"success", "terminal", "cancelled"}

\* Variant of waitDone without wg.Wait().
waitDoneAtOnce(tasks) == TRUE

\* wg.Wait() returns: every task has called wg.Done().
waitDone(tasks) == \A i \in DOMAIN tasks : tasks[i].st \in TaskReturned

\* HarvestNow returns; the deferred cancel() ends the context.
HarvestReturn(t) ==
    /\ harvest[t].pc = "wait"
    /\ waitDone(harvest[t].tasks)
    /\ harvest' = [harvest EXCEPT ![t] =
          [IdleHarvest EXCEPT !.pc = "returned",
                              !.tasks = harvest[t].tasks,
                              !.ctxErr = IF harvest[t].ctxErr = ctxNil
                                         THEN "context canceled"
                                         ELSE harvest[t].ctxErr]]
    /\ event' = Returned(t, "HarvestNow", NoCall, "none", {}, 0)
    /\ UNCHANGED <<h, commonAttributes, errorLogger, lock, lastHarvest, rawMetrics, aggregatedMetrics,
                   spans, events, logs, producer, seq, calls, harvests, fate>>
    /\ UNCHANGED <<splitVars, deliverVars, routineVars, factoryVars>>

\* The harvest timeout elapses, or the caller's context is cancelled.
ContextDone(t) ==
    /\ harvest[t].pc \notin {"idle", "returned", Dead}
    /\ harvest[t].ctxErr = ctxNil
    /\ \E e \in ContextErrors : harvest' = [harvest EXCEPT ![t].ctxErr = e]
    /\ event' = NoEvent
    /\ UNCHANGED <<h, commonAttributes, errorLogger, lock, lastHarvest, rawMetrics, aggregatedMetrics,
                   spans, events, logs, producer, seq, calls, harvests, fate>>
    /\ UNCHANGED <<splitVars, deliverVars, routineVars, factoryVars>>

----------------------------------------------------------------------------
(* The Harvester: the delivery tasks of a harvest.                         *)

\* What postData returns to a task of a harvest.
HarvestResponses ==
    {TransportError} \cup
    { [statusCode |-> c, err |-> c \notin {200, 202}, retryAfter |-> <<>>] :
        c \in {200, 413, 500} }

Task(t, i) == harvest[t].tasks[i]

\* A task that has returned keeps nothing but how it ended.
Ended(st) == [NewTask(<<>>) EXCEPT !.st = st]

\* A step of task i of the harvest of thread t: the task and the fate of the
\* records of its request change, nothing else does.
TaskStep(t, i, task, outcome) ==
    /\ harvest' = [harvest EXCEPT ![t].tasks[i] = task]
    /\ fate' = IF outcome = "held" THEN fate
               ELSE SetFate(Ids(Task(t, i).req), outcome)
    /\ event' = NoEvent
    /\ UNCHANGED <<h, commonAttributes, errorLogger, lock, lastHarvest, rawMetrics, aggregatedMetrics,
                   spans, events, logs, producer, seq, calls, harvests>>
    /\ UNCHANGED <<splitVars, deliverVars, routineVars, factoryVars>>

\* postData returns and needsRetry decides: the task returns, or creates its
\* timer and reaches the select statement.
TaskPost(t, i) ==
    /\ Task(t, i).st = "post"
    /\ \E r \in HarvestResponses :
         LET nr == needsRetry(r, Task(t, i).attempts)
         IN  IF ~nr.retry
             THEN IF r.statusCode \in successStatuses
                  THEN TaskStep(t, i, Ended("success"), "delivered")
                  ELSE TaskStep(t, i, Ended("terminal"), "terminal")
             ELSE TaskStep(t, i, [Task(t, i) EXCEPT !.st = "select",
                                                    !.backoff = nr.backoff,
                                                    !.timerFired = FALSE], "held")

\* case <-tmr.C in a task of a harvest: attempts++, and the next POST.
TaskTimerCase(t, i) ==
    /\ Task(t, i).attempts < MaxRetries
    /\ TaskStep(t, i, [Task(t, i) EXCEPT !.st = "post", !.attempts = @ + 1,
                                         !.backoff = 0, !.timerFired = FALSE], "held")

\* case <-req.Context().Done() in a task of a harvest: the task returns and
\* its data is dropped.
TaskContextCase(t, i) ==
    IF onContextDone(harvest[t].ctxErr).dpc = "done"
    THEN TaskStep(t, i, Ended("cancelled"), "cancelled")
    ELSE TaskStep(t, i, Task(t, i), "held")

\* The timer expires before the task has reached the select statement.  No
\* time passes once the context is done: only a timer of no duration expires
\* then.
TaskTimerFires(t, i) ==
    /\ Task(t, i).st = "select" /\ ~Task(t, i).timerFired
    /\ Task(t, i).backoff = 0 \/ harvest[t].ctxErr = ctxNil
    /\ TaskStep(t, i, [Task(t, i) EXCEPT !.timerFired = TRUE], "held")

\* The select statement finds no channel ready and the task blocks in it.
TaskSelectBlocks(t, i) ==
    /\ Task(t, i).st = "select" /\ ~Task(t, i).timerFired
    /\ harvest[t].ctxErr = ctxNil
    /\ TaskStep(t, i, [Task(t, i) EXCEPT !.st = "parked"], "held")

\* The select statement finds tmr.C ready (it picks among the ready cases).
TaskSelectTimer(t, i) ==
    /\ Task(t, i).st = "select" /\ Task(t, i).timerFired
    /\ TaskTimerCase(t, i)

\* The select statement finds the context done.
TaskSelectContext(t, i) ==
    /\ Task(t, i).st = "select" /\ harvest[t].ctxErr # ctxNil
    /\ TaskContextCase(t, i)

\* The timer expires while the task is blocked in select, which wakes it.
TaskTimerWakes(t, i) ==
    /\ Task(t, i).st = "parked" /\ harvest[t].ctxErr = ctxNil
    /\ TaskTimerCase(t, i)

\* The context is done while the task is blocked in select, which wakes it.
TaskContextWakes(t, i) ==
    /\ Task(t, i).st = "parked" /\ harvest[t].ctxErr # ctxNil
    /\ TaskContextCase(t, i)

\* A program with a harvester, or with a nil one, before any call.
InitHarvest ==
    /\ input = <<>>
    /\ stack = <<>>
    /\ ret = NoReturn
    /\ tooLarge = {}
    /\ dpc = "idle"
    /\ attempts = 0
    /\ resp = NoResponse
    /\ backoff = 0
    /\ timerFired = FALSE
    /\ ctxErr = ctxNil
    /\ posts = 0
    /\ reqBody = "fresh"
    /\ cancelLogs = 0
    /\ h \in {"nil", "harvester"}
    /\ commonAttributes = NoAttributes
    /\ errorLogger \in BOOLEAN
    /\ lock = "none"
    /\ lastHarvest = 0
    /\ rawMetrics = <<>>
    /\ aggregatedMetrics = <<>>
    /\ spans = <<>>
    /\ events = <<>>
    /\ logs = <<>>
    /\ producer = [p \in Producers |-> IdleProducer]
    /\ harvest = [t \in HarvestThreads |-> IdleHarvest]
    /\ seq = 0
    /\ calls = 0
    /\ harvests = 0
    /\ event = NoEvent
    /\ fate = <<>>
    /\ harvestTimeout = defaultHarvestTimeout
    /\ clock = 0
    /\ ticks = 0
    /\ executions = {}
    /\ harvestPeriod = 0
    /\ routine = NoRoutine
    /\ mem = NoArrays
    /\ builder = [b \in Builders |-> IdleBuilder]
    /\ requests = <<>>
    /\ builds = 0
    /\ lastLength = NoLength
    /\ factory = DefaultFactory
    /\ call = NoBuild

----------------------------------------------------------------------------
(* The Harvester: NewHarvester and harvestRoutine.                         *)

\* The values of config.HarvestPeriod: a time.Duration is a signed integer.
HarvestPeriods == {0 - Second, 0, 5 * Second}

\* The thread of the HarvestNow call a tick starts.
background == "h2"

\* Variant of routineStarted for a NewHarvester that always starts the routine.
routineStartedAlways(period) == TRUE

\* if h.config.HarvestPeriod != 0 { go harvestRoutine(h) }
routineStarted(period) == period # 0

\* minDuration(d1, d2)
minDuration(d1, d2) == IF d1 < d2 THEN d1 ELSE d2

\* The values rnd.Int63n(n) may return, for n > 0: the ends and the middle of
\* the half-open interval [0, n).
Int63n(n) == {0, n \div 2, n - 1}

\* The fields and counters a step of harvestRoutine leaves as they are.
RoutineStep ==
    UNCHANGED <<h, commonAttributes, errorLogger, lock, lastHarvest, rawMetrics, aggregatedMetrics,
                spans, events, logs, seq, calls, harvests, fate, harvestPeriod,
                harvestTimeout, clock, ticks, executions>>

\* harvestRoutine up to time.Sleep(jitter).  rnd.Int63n panics when its
\* argument is not positive; a panic in a goroutine ends the program, and
\* with it every thread.
Jitter ==
    /\ routine.pc = "start"
    /\ LET d == minDuration(harvestPeriod, 3 * Second)
       IN  IF d <= 0
           THEN /\ routine' = [routine EXCEPT !.pc = "panicked"]
                /\ producer' = [p \in Producers |-> [IdleProducer EXCEPT !.pc = Dead]]
                /\ harvest' = [t \in HarvestThreads |-> [IdleHarvest EXCEPT !.pc = Dead]]
           ELSE /\ \E j \in Int63n(d) :
                     routine' = [routine EXCEPT !.pc = "sleep", !.jitter = j]
                /\ UNCHANGED <<producer, harvest>>
    /\ event' = NoEvent
    /\ RoutineStep
    /\ UNCHANGED <<splitVars, deliverVars, factoryVars>>

\* time.Sleep(jitter) returns and the ticker is created; the jitter is not
\* used again.
NewTicker ==
    /\ routine.pc = "sleep"
    /\ routine' = [routine EXCEPT !.pc = "ticker", !.jitter = 0]
    /\ event' = NoEvent
    /\ RoutineStep
    /\ UNCHANGED <<producer, harvest>>
    /\ UNCHANGED <<splitVars, deliverVars, factoryVars>>

\* for range ticker.C { go h.HarvestNow(context.Background()) }: a tick starts
\* HarvestNow in a thread of its own.
Tick ==
    /\ routine.pc = "ticker"
    /\ HarvestNow(background)

\* The ticks of the ticker followed.
MaxTicks == 5

\* The positive values of config.HarvestPeriod and the values of
\* config.HarvestTimeout the ticker is followed with.
TickerPeriods == {Second, 2 * Second, defaultHarvestPeriod}
HarvestTimeouts == {Second, 3 * Second, defaultHarvestTimeout}

\* The time of the next tick of time.NewTicker(h.config.HarvestPeriod).
nextTick == (ticks + 1) * harvestPeriod

\* Variant of contextDone for a HarvestNow that made its context without a
\* deadline.
contextDoneNever(x, t) == FALSE

\* ctx, cancel := context.WithTimeout(ct, h.config.HarvestTimeout): the context
\* of the call x is done at time t.
contextDone(x, t) == t >= x.started + harvestTimeout

\* The fields and counters a step of the ticker or of the clock leaves as
\* they are.
TickerStep ==
    /\ event' = NoEvent
    /\ UNCHANGED <<h, commonAttributes, errorLogger, lock, lastHarvest, rawMetrics,
                   aggregatedMetrics, spans, events, logs, producer, harvest, seq,
                   calls, harvests, fate, harvestPeriod, routine, harvestTimeout>>
    /\ UNCHANGED <<splitVars, deliverVars, factoryVars>>

\* for range ticker.C { go h.HarvestNow(context.Background()) }, with the time
\* of the tick: the loop does not wait for the calls it started before.
TickerFires ==
    /\ routine.pc = "ticker"
    /\ ticks < MaxTicks
    /\ clock = nextTick
    /\ ticks' = ticks + 1
    /\ executions' = executions \cup {[started |-> clock]}
    /\ UNCHANGED clock
    /\ TickerStep

\* wg.Wait() returns in the HarvestNow call x and the call returns: every
\* delivery task has ended, with its data sent or its context done.
HarvestEnds(x) ==
    /\ x \in executions
    /\ executions' = executions \ {x}
    /\ UNCHANGED <<clock, ticks>>
    /\ TickerStep

\* Time passes up to the next tick or the next deadline of a context.  The
\* tick that is due is delivered first, and a call whose context is done
\* returns first: its transport returns and its delivery tasks leave through
\* the case of ctx.Done().
TimePasses ==
    /\ routine.pc = "ticker"
    /\ ticks < MaxTicks
    /\ clock < nextTick
    /\ \A x \in executions : ~contextDone(x, clock)
    /\ LET due == {nextTick} \cup
                  {t \in {x.started + harvestTimeout : x \in executions} : t > clock}
       IN  clock' = CHOOSE t \in due : \A u \in due : t <= u
    /\ UNCHANGED <<ticks, executions>>
    /\ TickerStep

\* A harvester as NewHarvester returns it, with its routine when it has one.
InitPeriodic ==
    /\ input = <<>>
    /\ stack = <<>>
    /\ ret = NoReturn
    /\ tooLarge = {}
    /\ dpc = "idle"
    /\ attempts = 0
    /\ resp = NoResponse
    /\ backoff = 0
    /\ timerFired = FALSE
    /\ ctxErr = ctxNil
    /\ posts = 0
    /\ reqBody = "fresh"
    /\ cancelLogs = 0
    /\ h = "harvester"
    /\ commonAttributes = NoAttributes
    /\ errorLogger \in BOOLEAN
    /\ lock = "none"
    /\ lastHarvest = 0
    /\ rawMetrics = <<>>
    /\ aggregatedMetrics = <<>>
    /\ spans = <<>>
    /\ events = <<>>
    /\ logs = <<>>
    /\ producer = [p \in Producers |-> IdleProducer]
    /\ harvest = [t \in HarvestThreads |-> IdleHarvest]
    /\ seq = 0
    /\ calls = 0
    /\ harvests = 0
    /\ event = NoEvent
    /\ fate = <<>>
    /\ harvestTimeout = defaultHarvestTimeout
    /\ clock = 0
    /\ ticks = 0
    /\ executions = {}
    /\ harvestPeriod \in HarvestPeriods
    /\ routine = [NoRoutine EXCEPT
                    !.pc = IF routineStarted(harvestPeriod) THEN "start" ELSE "none"]
    /\ mem = NoArrays
    /\ builder = [b \in Builders |-> IdleBuilder]
    /\ requests = <<>>
    /\ builds = 0
    /\ lastLength = NoLength
    /\ factory = DefaultFactory
    /\ call = NoBuild

----------------------------------------------------------------------------
(* The request factory: buildRequest and the body of a request.            *)

\* The payloads handed to BuildRequest, each by the bytes its entries write.
Batches == {<<1>>, <<2, 2>>}

\* bufferRequestBytes(buf, batches): '[', the entries, ']' are written to buf.
bufferRequestBytes(buf, batches) == buf \o <<91>> \o batches \o <<93>>

\* internal.CompressWithWriter(b, w), w writing to the buffer with content
\* buf: w.Write(b) writes the gzip header and the deflated bytes, w.Close()
\* the trailer with the size of the input.
CompressWithWriter(b, buf) ==
    buf \o <<31>> \o [i \in 1..Len(b) |-> b[i] + 128] \o <<Len(b)>>

\* internal.Uncompress(b): the bytes that were compressed, or an error when b
\* is not one gzip stream.
Uncompress(b) ==
    IF /\ Len(b) >= 2
       /\ b[1] = 31
       /\ b[Len(b)] = Len(b) - 2
       /\ \A i \in 2..(Len(b) - 1) : b[i] >= 128
    THEN [i \in 1..(Len(b) - 2) |-> b[i + 1] - 128]
    ELSE "gzip: invalid"

\* decompressedBuffer.Reset(), poolEntry.compressedBuffer.Reset(): the buffer
\* is emptied and keeps its array.
Reset(buf) == <<>>

\* pool.Get() in thread b: an object no other thread has checked out, made by
\* New() or put back by an earlier borrower.
Get(pool, b) ==
    { x \in pool : \A o \in Builders \ {b} :
          x \notin {builder[o].decompressedBuffer, builder[o].poolEntry} }

\* Variant of requestBytes without the copy: the request keeps the array of
\* the pooled buffer.
requestBytesShared(compressedBuffer, made) == compressedBuffer

\* requestBytes := make([]byte, len(...)); copy(requestBytes, ...): the array
\* made for the request.
requestBytes(compressedBuffer, made) == made

\* Variant of contentLength that takes the length before w.Close() wrote the
\* trailer.
contentLengthUnclosed(bytes) == Len(bytes) - 1

\* var contentLength = int64(len(requestBytes))
contentLength(bytes) == Len(bytes)

\* getBody(): a new reader at the start of requestBytes.
getBody(array) == [array |-> array, off |-> 0]

\* What is left to read from a reader.
Remaining(reader) ==
    SubSeq(mem[reader.array], reader.off + 1, Len(mem[reader.array]))

\* The steps of the factory leave the other counters alone.
FactoryStep == UNCHANGED <<splitVars, deliverVars, harvestVars, routineVars, optionVars>>

\* buildRequest up to the payload: with options that do not configure, it
\* returns an empty request and an error; otherwise a buffer and a gzip entry
\* are taken from the pools and reset.
BuildRequest(b) ==
    /\ builder[b].pc = "idle"
    /\ builds < MaxBuilds
    /\ builds' = builds + 1
    /\ \E batches \in Batches, configureFails \in BOOLEAN :
         IF configureFails
         THEN UNCHANGED <<mem, builder>>
         ELSE \E u \in Get(UncompressedBuffers, b), z \in Get(CompressedBuffers, b) :
                /\ builder' = [builder EXCEPT ![b] =
                      [pc |-> "payload", batches |-> batches,
                       decompressedBuffer |-> u, poolEntry |-> z]]
                /\ mem' = [mem EXCEPT ![u] = Reset(@), ![z] = Reset(@)]
    /\ UNCHANGED requests
    /\ FactoryStep

\* bufferRequestBytes(decompressedBuffer, batches)
GeneratePayload(b) ==
    /\ builder[b].pc = "payload"
    /\ mem' = [mem EXCEPT ![builder[b].decompressedBuffer] =
                 bufferRequestBytes(@, builder[b].batches)]
    /\ builder' = [builder EXCEPT ![b].pc = "compress"]
    /\ UNCHANGED <<requests, builds>>
    /\ FactoryStep

\* internal.CompressWithWriter(decompressedBuffer.Bytes(), poolEntry.zipper)
CompressPayload(b) ==
    /\ builder[b].pc = "compress"
    /\ mem' = [mem EXCEPT ![builder[b].poolEntry] =
                 CompressWithWriter(mem[builder[b].decompressedBuffer], @)]
    /\ builder' = [builder EXCEPT ![b].pc = "copy"]
    /\ UNCHANGED <<requests, builds>>
    /\ FactoryStep

\* The request as buildRequest returns it, with the delivery task that will
\* send it: its body reader comes from getBody().
NewRequest(array, bytes, batches) ==
    [requestBytes |-> array, ContentLength |-> contentLength(bytes),
     Body |-> getBody(array), batches |-> batches,
     st |-> "post", attempts |-> 0, posts |-> 0, carried |-> <<>>]

\* The rest of buildRequest: the compressed bytes are copied, the request is
\* made, and the deferred Put calls give the buffer and the entry back.
ReturnRequest(b) ==
    /\ builder[b].pc = "copy"
    /\ LET made == ToString(Len(requests) + 1)
           bytes == mem[builder[b].poolEntry]
           array == requestBytes(builder[b].poolEntry, made)
       IN  /\ mem' = [a \in DOMAIN mem \cup {made} |->
                        IF a = made THEN bytes ELSE mem[a]]
           /\ requests' = Append(requests,
                                 NewRequest(array, bytes, builder[b].batches))
    /\ builder' = [builder EXCEPT ![b] = IdleBuilder]
    /\ UNCHANGED builds
    /\ FactoryStep

\* Variant of reattached without req.GetBody(): the request keeps the reader
\* the last attempt has read.
reattachedNot(req) == req.Body

\* originalBody, _ := req.GetBody(); req.Body = originalBody
reattached(req) == getBody(req.requestBytes)

\* postData in the task of request i: the transport reads req.Body, to its end
\* or until it gives up half way, and needsRetry decides.
PostRequest(i) ==
    /\ requests[i].st = "post"
    /\ \E r \in HarvestResponses :
         LET req == requests[i]
             left == Len(Remaining(req.Body))
         IN  \E read \in {left, left \div 2} :
               requests' = [requests EXCEPT
                  ![i].carried = Remaining(req.Body),
                  ![i].posts = @ + 1,
                  ![i].Body = [req.Body EXCEPT !.off = @ + read],
                  ![i].st = IF needsRetry(r, req.attempts).retry
                            THEN "select" ELSE "done"]
    /\ UNCHANGED <<mem, builder, builds>>
    /\ FactoryStep

\* case <-tmr.C in the task of request i: attempts++ and the body is
\* reattached.
RequestTimerCase(i) ==
    /\ requests[i].st = "select"
    /\ requests[i].attempts < MaxRetries
    /\ requests' = [requests EXCEPT ![i].attempts = @ + 1,
                                    ![i].Body = reattached(requests[i]),
                                    ![i].st = "post"]
    /\ UNCHANGED <<mem, builder, builds>>
    /\ FactoryStep

\* case <-req.Context().Done() in the task of request i.
RequestContextCase(i) ==
    /\ requests[i].st = "select"
    /\ requests' = [requests EXCEPT ![i].st = "done"]
    /\ UNCHANGED <<mem, builder, builds>>
    /\ FactoryStep

\* A factory as NewSpanRequestFactory returns it, before any build.
InitFactory ==
    /\ input = <<>>
    /\ stack = <<>>
    /\ ret = NoReturn
    /\ tooLarge = {}
    /\ dpc = "idle"
    /\ attempts = 0
    /\ resp = NoResponse
    /\ backoff = 0
    /\ timerFired = FALSE
    /\ ctxErr = ctxNil
    /\ posts = 0
    /\ reqBody = "fresh"
    /\ cancelLogs = 0
    /\ h = "nil"
    /\ commonAttributes = NoAttributes
    /\ errorLogger = FALSE
    /\ lock = "none"
    /\ lastHarvest = 0
    /\ rawMetrics = <<>>
    /\ aggregatedMetrics = <<>>
    /\ spans = <<>>
    /\ events = <<>>
    /\ logs = <<>>
    /\ producer = [p \in Producers |-> IdleProducer]
    /\ harvest = [t \in HarvestThreads |-> IdleHarvest]
    /\ seq = 0
    /\ calls = 0
    /\ harvests = 0
    /\ event = NoEvent
    /\ fate = <<>>
    /\ harvestTimeout = defaultHarvestTimeout
    /\ clock = 0
    /\ ticks = 0
    /\ executions = {}
    /\ harvestPeriod = 0
    /\ routine = NoRoutine
    /\ mem = NoArrays
    /\ builder = [b \in Builders |-> IdleBuilder]
    /\ requests = <<>>
    /\ builds = 0
    /\ lastLength = NoLength
    /\ factory = DefaultFactory
    /\ call = NoBuild

----------------------------------------------------------------------------
(* The options of a request factory.                                       *)

\* gzip.HuffmanOnly and gzip.BestCompression.
HuffmanOnly == 0 - 2
BestCompression == 9

\* The levels handed to WithGzipCompressionLevel.
GzipLevels == {0 - 3, 1, BestCompression, 10}

\* gzip.NewWriterLevel(nil, level) returns no error.
validGzipLevel(level) == level >= HuffmanOnly /\ level <= BestCompression

\* The client options.
Options ==
    { [op |-> "WithInsertKey", arg |-> "insert"],
      [op |-> "WithInsertKey", arg |-> ""],
      [op |-> "WithLicenseKey", arg |-> "license"],
      [op |-> "WithNoDefaultKey", arg |-> ""],
      [op |-> "WithEndpoint", arg |-> "localhost"],
      [op |-> "WithUserAgent", arg |-> "agent"],
      [op |-> "WithInsecure", arg |-> ""] }
      \cup { [op |-> "WithGzipCompressionLevel", arg |-> l] : l \in GzipLevels }

\* options ...ClientOption, of two options at most.
OptionLists ==
    {<<>>} \cup { <<o>> : o \in Options } \cup { <<o, q>> : o, q \in Options }

\* The body of WithGzipCompressionLevel: the pool is replaced when
\* gzip.NewWriterLevel returns an error.
withGzipCompressionLevel(o, level) ==
    IF ~validGzipLevel(level) THEN [o EXCEPT !.zippers = newGzipPool(level)]
    ELSE o

\* option(f): the factory after the option has written to it.
applyOption(option, o) ==
    CASE option.op = "WithInsertKey" ->
            [o EXCEPT !.apiKeyHeader = "Api-Key", !.apiKey = option.arg]
      [] option.op = "WithLicenseKey" ->
            [o EXCEPT !.apiKeyHeader = "X-License-Key", !.apiKey = option.arg]
      [] option.op = "WithNoDefaultKey" -> [o EXCEPT !.noDefaultKey = TRUE]
      [] option.op = "WithEndpoint" -> [o EXCEPT !.endpoint = option.arg]
      [] option.op = "WithUserAgent" ->
            [o EXCEPT !.userAgent = <<"NewRelic-Go-TelemetrySDK", option.arg>>]
      [] option.op = "WithInsecure" -> [o EXCEPT !.scheme = "http"]
      [] option.op = "WithGzipCompressionLevel" ->
            withGzipCompressionLevel(o, option.arg)

\* for _, option := range options { option(f) }
RECURSIVE applyOptions(_, _)
applyOptions(f, options) ==
    IF options = <<>> THEN f
    ELSE applyOptions(applyOption(Head(options), f), Tail(options))

\* configure(f, options): the factory as the options leave it, and whether
\* the error for a missing api key is returned.
configure(f, options) ==
    LET o == applyOptions(f, options)
    IN  [f |-> o, err |-> (o.apiKey = "" /\ ~o.noDefaultKey)]

\* The factories NewSpanRequestFactory returns without an error.
Factories ==
    { configure(DefaultFactory, options).f :
        options \in { l \in OptionLists : ~configure(DefaultFactory, l).err } }

\* Variant of configuredTarget in which the options are applied to f itself.
configuredTargetShared(options) == "f"

\* configuredFactory := f, and with options a copy of *f: the struct the
\* options write to.
configuredTarget(options) == IF Len(options) > 0 THEN "copy" ELSE "f"

\* http.Request of buildRequest: the parts that come from the factory.
requestOf(o) ==
    [Scheme |-> o.scheme, Host |-> o.endpoint,
     Header |-> [key |-> o.apiKeyHeader, value |-> o.apiKey,
                 UserAgent |-> o.userAgent],
     level |-> o.zippers.level]

\* buildRequest called with options: the factory is configured for the call;
\* the call returns an error when configure does, panics in
\* poolEntry.zipper.Reset when the pool makes entries without a writer (the
\* level of the pool is not a gzip level), and returns a request otherwise.
ConfigureRequest ==
    /\ builds < MaxBuilds
    /\ builds' = builds + 1
    /\ \E options \in OptionLists :
         LET c == IF Len(options) > 0 THEN configure(factory, options)
                  ELSE [f |-> factory, err |-> FALSE]
         IN  /\ factory' = IF configuredTarget(options) = "f" THEN c.f ELSE factory
             /\ call' = [options |-> options, configured |-> c.f,
                         outcome |-> IF c.err THEN "error"
                                     ELSE IF ~validGzipLevel(c.f.zippers.level)
                                     THEN "panic"
                                     ELSE "request"]
    /\ UNCHANGED <<mem, builder, requests>>
    /\ UNCHANGED <<splitVars, deliverVars, harvestVars, routineVars>>

\* A factory made with any options, before any build.
InitOptions ==
    /\ input = <<>>
    /\ stack = <<>>
    /\ ret = NoReturn
    /\ tooLarge = {}
    /\ dpc = "idle"
    /\ attempts = 0
    /\ resp = NoResponse
    /\ backoff = 0
    /\ timerFired = FALSE
    /\ ctxErr = ctxNil
    /\ posts = 0
    /\ reqBody = "fresh"
    /\ cancelLogs = 0
    /\ h = "nil"
    /\ commonAttributes = NoAttributes
    /\ errorLogger = FALSE
    /\ lock = "none"
    /\ lastHarvest = 0
    /\ rawMetrics = <<>>
    /\ aggregatedMetrics = <<>>
    /\ spans = <<>>
    /\ events = <<>>
    /\ logs = <<>>
    /\ producer = [p \in Producers |-> IdleProducer]
    /\ harvest = [t \in HarvestThreads |-> IdleHarvest]
    /\ seq = 0
    /\ calls = 0
    /\ harvests = 0
    /\ event = NoEvent
    /\ fate = <<>>
    /\ harvestTimeout = defaultHarvestTimeout
    /\ clock = 0
    /\ ticks = 0
    /\ executions = {}
    /\ harvestPeriod = 0
    /\ routine = NoRoutine
    /\ mem = NoArrays
    /\ builder = [b \in Builders |-> IdleBuilder]
    /\ requests = <<>>
    /\ builds = 0
    /\ lastLength = NoLength
    /\ factory \in Factories
    /\ call = NoBuild

----------------------------------------------------------------------------
(* Specifications.                                                         *)

NextSplit ==
    \/ BuildFails
    \/ CheckSize
    \/ SplitPayload
    \/ UnableToSplit
    \/ Recurse
    \/ Receive
    \/ ReturnReqs

NextDeliver ==
    \/ PostData
    \/ Classify
    \/ TimerFiresEarly
    \/ SelectBlocks
    \/ SelectTimer
    \/ SelectContext
    \/ TimerWakes
    \/ ContextEnds
    \/ ContextWakes

\* The steps of newRequests: the splitter with the default predicate.
NextSize ==
    \/ BuildFails
    \/ CheckSizeDefault
    \/ SplitPayload
    \/ UnableToSplit
    \/ Recurse
    \/ Receive
    \/ ReturnReqs

\* newRequests on any input, with built requests of any length.
SpecSize == InitSplit /\ [][NextSize]_vars

\* The splitter alone.
SpecSplit == InitSplit /\ [][NextSplit]_vars

\* The splitter, which runs to the end of every call it started.
FairSpecSplit == SpecSplit /\ WF_vars(NextSplit)

\* One delivery task.
SpecDeliver == InitDeliver /\ [][NextDeliver]_vars

\* The thread of a program that calls HarvestNow itself (HarvestPeriod is 0).
caller == "h1"

\* The steps of the producers.
NextRecord ==
    \/ \E p \in Producers : RecordSpan(p)
    \/ \E p \in Producers : RecordEvent(p)
    \/ \E p \in Producers : RecordLog(p)
    \/ \E p \in Producers : RecordMetric(p)
    \/ \E p \in Producers : AggregatedCount(p)
    \/ \E p \in Producers : MetricAggregator(p)
    \/ \E p \in Producers : ProducerLock(p)
    \/ \E p \in Producers : appendSpan(p)
    \/ \E p \in Producers : appendEvent(p)
    \/ \E p \in Producers : appendLog(p)
    \/ \E p \in Producers : appendMetric(p)
    \/ \E p \in Producers : addDataPoint(p)

\* The steps of HarvestNow in thread t, its delivery tasks apart.
NextHarvestNow(t) ==
    \/ HarvestNow(t)
    \/ SwapLock(t)
    \/ swapOutMetrics(t)
    \/ swapOutSpans(t)
    \/ swapOutEvents(t)
    \/ swapOutLogs(t)
    \/ Build(t)
    \/ Dispatch(t)
    \/ HarvestReturn(t)

\* The context of the harvest of thread t and the steps of its delivery tasks.
NextDelivery(t) ==
    \/ ContextDone(t)
    \/ \E i \in DOMAIN harvest[t].tasks : TaskPost(t, i)
    \/ \E i \in DOMAIN harvest[t].tasks : TaskTimerFires(t, i)
    \/ \E i \in DOMAIN harvest[t].tasks : TaskSelectBlocks(t, i)
    \/ \E i \in DOMAIN harvest[t].tasks : TaskSelectTimer(t, i)
    \/ \E i \in DOMAIN harvest[t].tasks : TaskSelectContext(t, i)
    \/ \E i \in DOMAIN harvest[t].tasks : TaskTimerWakes(t, i)
    \/ \E i \in DOMAIN harvest[t].tasks : TaskContextWakes(t, i)

NextHarvest ==
    \/ NextRecord
    \/ NextHarvestNow(caller)
    \/ NextDelivery(caller)

NextSwap ==
    \/ NextRecord
    \/ \E t \in HarvestThreads : NextHarvestNow(t)

\* Producers and a thread that calls HarvestNow, one call after the other, on
\* one harvester.
SpecHarvest == InitHarvest /\ [][NextHarvest]_vars

\* Producers and two threads that call HarvestNow at the same time, followed
\* while the transport has not answered any request.
SpecSwap == InitHarvest /\ [][NextSwap]_vars

\* The record calls with metrics of every type.
NextMetrics ==
    \/ NextRecord
    \/ \E p \in Producers : RecordGaugeOrSummary(p)

\* Producers that record spans, events, logs and metrics of the three types;
\* nothing is harvested.
SpecMetrics == InitHarvest /\ [][NextMetrics]_vars

\* NewHarvester with or without ConfigCommonAttributes: h.commonAttributes is
\* the marshalled map, or nil when the Config had none.
InitCommon ==
    /\ input = <<>>
    /\ stack = <<>>
    /\ ret = NoReturn
    /\ tooLarge = {}
    /\ dpc = "idle"
    /\ attempts = 0
    /\ resp = NoResponse
    /\ backoff = 0
    /\ timerFired = FALSE
    /\ ctxErr = ctxNil
    /\ posts = 0
    /\ reqBody = "fresh"
    /\ cancelLogs = 0
    /\ h \in {"nil", "harvester"}
    /\ commonAttributes \in {NoAttributes, "attributes"}
    /\ errorLogger \in BOOLEAN
    /\ lock = "none"
    /\ lastHarvest = 0
    /\ rawMetrics = <<>>
    /\ aggregatedMetrics = <<>>
    /\ spans = <<>>
    /\ events = <<>>
    /\ logs = <<>>
    /\ producer = [p \in Producers |-> IdleProducer]
    /\ harvest = [t \in HarvestThreads |-> IdleHarvest]
    /\ seq = 0
    /\ calls = 0
    /\ harvests = 0
    /\ event = NoEvent
    /\ fate = <<>>
    /\ harvestTimeout = defaultHarvestTimeout
    /\ clock = 0
    /\ ticks = 0
    /\ executions = {}
    /\ harvestPeriod = 0
    /\ routine = NoRoutine
    /\ mem = NoArrays
    /\ builder = [b \in Builders |-> IdleBuilder]
    /\ requests = <<>>
    /\ builds = 0
    /\ lastLength = NoLength
    /\ factory = DefaultFactory
    /\ call = NoBuild

\* The harvester of a Config with or without common attributes.
SpecCommon == InitCommon /\ [][NextHarvest]_vars

\* The steps of harvestRoutine.
NextRoutine ==
    \/ Jitter
    \/ NewTicker
    \/ Tick

NextPeriodic ==
    \/ NextRecord
    \/ NextRoutine
    \/ harvestPeriod = 0 /\ NextHarvestNow(caller)
    \/ NextDelivery(caller)
    \/ NextHarvestNow(background) /\ harvest[background].pc # "idle"
    \/ NextDelivery(background)

\* Producers and the harvestRoutine of the harvester, whose ticks start
\* HarvestNow in the background; the program calls HarvestNow itself when
\* it has set HarvestPeriod to zero.
SpecPeriodic == InitPeriodic /\ [][NextPeriodic]_vars

\* A harvester with a positive HarvestPeriod, as NewHarvester returns it.
InitTicker ==
    /\ input = <<>>
    /\ stack = <<>>
    /\ ret = NoReturn
    /\ tooLarge = {}
    /\ dpc = "idle"
    /\ attempts = 0
    /\ resp = NoResponse
    /\ backoff = 0
    /\ timerFired = FALSE
    /\ ctxErr = ctxNil
    /\ posts = 0
    /\ reqBody = "fresh"
    /\ cancelLogs = 0
    /\ h = "harvester"
    /\ commonAttributes = NoAttributes
    /\ errorLogger \in BOOLEAN
    /\ lock = "none"
    /\ lastHarvest = 0
    /\ rawMetrics = <<>>
    /\ aggregatedMetrics = <<>>
    /\ spans = <<>>
    /\ events = <<>>
    /\ logs = <<>>
    /\ producer = [p \in Producers |-> IdleProducer]
    /\ harvest = [t \in HarvestThreads |-> IdleHarvest]
    /\ seq = 0
    /\ calls = 0
    /\ harvests = 0
    /\ event = NoEvent
    /\ fate = <<>>
    /\ harvestTimeout \in HarvestTimeouts
    /\ clock = 0
    /\ ticks = 0
    /\ executions = {}
    /\ harvestPeriod \in TickerPeriods
    /\ routine = [NoRoutine EXCEPT
                    !.pc = IF routineStarted(harvestPeriod) THEN "start" ELSE "none"]
    /\ mem = NoArrays
    /\ builder = [b \in Builders |-> IdleBuilder]
    /\ requests = <<>>
    /\ builds = 0
    /\ lastLength = NoLength
    /\ factory = DefaultFactory
    /\ call = NoBuild

NextTicker ==
    \/ Jitter
    \/ NewTicker
    \/ TickerFires
    \/ \E x \in executions : HarvestEnds(x)
    \/ TimePasses

\* The harvestRoutine of the harvester with the times of its ticks and of the
\* deadlines of the HarvestNow calls the ticks start.
SpecTicker == InitTicker /\ [][NextTicker]_vars

NextFactory ==
    \/ \E b \in Builders : BuildRequest(b)
    \/ \E b \in Builders : GeneratePayload(b)
    \/ \E b \in Builders : CompressPayload(b)
    \/ \E b \in Builders : ReturnRequest(b)
    \/ \E i \in DOMAIN requests : PostRequest(i)
    \/ \E i \in DOMAIN requests : RequestTimerCase(i)
    \/ \E i \in DOMAIN requests : RequestContextCase(i)

\* Threads that build requests on one factory, and the delivery tasks that
\* send the requests built.
SpecFactory == InitFactory /\ [][NextFactory]_vars

NextOptions == ConfigureRequest

\* Calls of BuildRequest with options on one factory.
SpecOptions == InitOptions /\ [][NextOptions]_vars

\* The steps of a record call that take no waiting.
PromptRecord ==
    \E p \in Producers :
       \/ ProducerLock(p)
       \/ appendSpan(p) \/ appendEvent(p) \/ appendLog(p)
       \/ appendMetric(p) \/ addDataPoint(p)

\* The steps of HarvestNow in thread t and of its tasks that take no waiting.
PromptHarvest(t) ==
    \/ SwapLock(t)
    \/ swapOutMetrics(t) \/ swapOutSpans(t)
    \/ swapOutEvents(t) \/ swapOutLogs(t)
    \/ Build(t)
    \/ Dispatch(t)
    \/ HarvestReturn(t)
    \/ ContextDone(t)
    \/ \E i \in DOMAIN harvest[t].tasks :
          \/ harvest[t].ctxErr # ctxNil /\ TaskPost(t, i)
          \/ TaskSelectBlocks(t, i)
          \/ TaskSelectTimer(t, i)
          \/ TaskSelectContext(t, i)
          \/ TaskContextWakes(t, i)

\* The steps that take no waiting: a thread that can run does run, the harvest
\* timeout elapses, and the transport returns once the context of its request
\* is done.  A timer need not expire and the server need not answer.
Prompt ==
    \/ PromptRecord
    \/ PromptHarvest(caller)

\* SpecHarvest with the scheduling the runtime, the clock and the transport
\* provide.
FairSpecHarvest == SpecHarvest /\ WF_vars(Prompt)

\* The steps of the periodic harvest that take no waiting; the sleep of the
\* routine ends and its ticker ticks.
PromptPeriodic ==
    \/ PromptRecord
    \/ NextRoutine
    \/ harvestPeriod = 0 /\ PromptHarvest(caller)
    \/ PromptHarvest(background)

\* SpecPeriodic with the scheduling the runtime, the clock and the transport
\* provide.
FairSpecPeriodic == SpecPeriodic /\ WF_vars(PromptPeriodic)

----------------------------------------------------------------------------
(* Properties of the splitter.                                             *)

\* The outermost call has returned requests and no error.
Succeeded == SplitDone /\ ret.set /\ ret.err = errNil

RECURSIVE Concat(_)
Concat(ss) == IF ss = <<>> THEN <<>> ELSE Head(ss) \o Concat(Tail(ss))

\* The records of the entry named key that a batch, a request, a list of
\* requests carry, in order.
BatchRecs(batch, key) ==
    Concat([e \in 1..Len(batch) |->
              IF batch[e].key = key THEN batch[e].recs ELSE <<>>])
RequestRecs(r, key) == Concat([b \in 1..Len(r) |-> BatchRecs(r[b], key)])
Carried(reqs, key) == Concat([i \in 1..Len(reqs) |-> RequestRecs(reqs[i], key)])

Range(f) == { f[i] : i \in DOMAIN f }

GroupKeys == { <<b, e>> \in (1..MaxSize + 1) \X (1..MaxSize + 1) :
                 b <= Len(input) /\ e <= Len(input[b]) /\ input[b][e].kind = "group" }
CommonKeys == { <<b, e>> \in (1..MaxSize + 1) \X (1..MaxSize + 1) :
                 b <= Len(input) /\ e <= Len(input[b]) /\ input[b][e].kind = "common" }

\* C1 as stated: when the splitter succeeds, the records the produced requests
\* carry, taken in request order, are for every record group exactly the
\* records of that group, in their order.
C1_ExactlyTheInput ==
    Succeeded =>
        \A k \in GroupKeys : Carried(ret.reqs, k) = input[k[1]][k[2]].recs

\* C2: whenever a call of the splitter returns requests and no error, the
\* oversize predicate answered false for each returned request.
C2_ReturnedWithinBound ==
    (ret.set /\ ret.err = errNil) =>
        \A i \in 1..Len(ret.reqs) : ret.reqs[i] \notin tooLarge

C2_Witness ==
    /\ Succeeded /\ Len(ret.reqs) >= 3 /\ Cardinality(tooLarge) >= 2

\* Size of a batch list: its records.
RecordCount(batches) ==
    Len(Concat([b \in 1..Len(batches) |->
                  Concat([e \in 1..Len(batches[b]) |-> batches[b][e].recs])]))

\* A step that enters a recursive call hands it strictly fewer batches, or,
\* out of a single batch, strictly fewer records.
CallDecreases ==
    Len(stack') > Len(stack) =>
        LET parent == Top.batches
            child == stack'[Len(stack')].batches
        IN  \/ Len(child) < Len(parent)
            \/ Len(parent) = 1 /\ Len(child) = 1
                               /\ RecordCount(child) < RecordCount(parent)

\* C3: for any input batches and any oversize predicate the splitter
\* terminates, with requests or with an error: every run comes to the return of
\* the outermost call, and each recursive call receives strictly fewer batches
\* or strictly fewer records in the single oversize batch.
C3_Terminates ==
    /\ <>(SplitDone /\ ret.set)
    /\ [][CallDecreases]_vars

\* A finished run that went three calls deep.
C3_Witness ==
    /\ SplitDone /\ ret.set
    /\ \E x, y, z \in tooLarge :
        /\ Len(x) = 2 /\ Len(y) = 1 /\ Len(z) = 1
        /\ RecordCount(z) < RecordCount(y)

\* No entry of the batch yields a split: it has no split method, or holds
\* fewer than two records.
NoEntrySplits(batch) ==
    \A e \in 1..Len(batch) : batch[e].kind = "common" \/ Len(batch[e].recs) < 2

\* C4: if the oversize input is a single batch in which no entry yields a
\* split, the splitter returns the UnableToSplit error and no requests.
C4_UnableToSplit ==
    (SplitDone /\ Len(input) = 1 /\ input \in tooLarge /\ NoEntrySplits(input[1])) =>
        ret = [set |-> TRUE, reqs |-> <<>>, err |-> errUnableToSplit]

\* A common block and a record group of one record, oversize.
C4_Witness ==
    /\ SplitDone /\ Len(input) = 1 /\ input \in tooLarge
    /\ Len(input[1]) = 2
    /\ input[1][1].kind = "common"
    /\ input[1][2].kind = "group" /\ Len(input[1][2].recs) = 1
    /\ ret.err = errUnableToSplit

\* The entry is one of the entries of a batch of the request.
InRequest(entry, r) ==
    \E b \in 1..Len(r) : \E e \in 1..Len(r[b]) : r[b][e] = entry

\* C5 as stated: when the splitter succeeds, every entry of the input without
\* a split method is present in every produced request.
C5_CommonInEveryRequest ==
    Succeeded =>
        \A k \in CommonKeys : \A i \in 1..Len(ret.reqs) :
            InRequest(input[k[1]][k[2]], ret.reqs[i])

\* C5 amended: when the splitter succeeds, every entry without a split method
\* is present, at its place, in every batch of a produced request that stems
\* from the input batch of the entry; with a single input batch it is present
\* in every produced request.
C5_CommonInEveryPiece ==
    Succeeded =>
        /\ \A i \in 1..Len(ret.reqs) : \A j \in 1..Len(ret.reqs[i]) :
            LET piece == ret.reqs[i][j]
                b == piece[1].key[1]
            IN  /\ Len(piece) = Len(input[b])
                /\ \A e \in 1..Len(input[b]) :
                    input[b][e].kind = "common" => piece[e] = input[b][e]
        /\ Len(input) = 1 =>
            \A k \in CommonKeys : \A i \in 1..Len(ret.reqs) :
                InRequest(input[k[1]][k[2]], ret.reqs[i])

\* A single batch with a common block, delivered in three requests.
C5_Witness ==
    /\ Succeeded /\ Len(input) = 1 /\ Len(ret.reqs) = 3
    /\ CommonKeys # {}

----------------------------------------------------------------------------
(* Properties of the delivery task.                                        *)

Min(a, b) == IF a < b THEN a ELSE b
Max(a, b) == IF a > b THEN a ELSE b

\* Entry min(k, 5) of the schedule 0, 1, 2, 4, 8, 16 seconds, in milliseconds.
ScheduleMs(k) == <<0, 1000, 2000, 4000, 8000, 16000>>[Min(k, 5) + 1]

TerminalStatuses == {400, 403, 404, 405, 411, 413}
FinalStatuses == {200, 202} \cup TerminalStatuses

\* C6: if a POST receives status 400, 403, 404, 405, 411 or 413, the task
\* makes no further POST for that request and ends.
C6_TerminalStops ==
    [][ /\ (dpc = "classify" /\ dpc' # dpc /\ resp.statusCode \in TerminalStatuses)
            => (dpc' = "done" /\ posts' = posts)
        /\ dpc = "done" => (dpc' = "done" /\ posts' = posts) ]_vars

\* The third POST of a request was answered 413 and the task has ended.
C6_Witness ==
    dpc = "done" /\ resp.statusCode = 413 /\ posts = 3 /\ ctxErr = ctxNil

\* C7: if a POST fails with a transport error or receives any status other
\* than 200, 202, 400, 403, 404, 405, 411 and 413, the task waits for the
\* scheduled backoff and sends the request again, and goes on so until a POST
\* succeeds, a terminal status arrives or the context of the request is done:
\* the task ends in no other case, a wait ends only by its timer or by the
\* context, and the timer leads to the next POST.
C7_RetriesUntilFinal ==
    /\ [](dpc = "done" => (resp.statusCode \in FinalStatuses \/ ctxErr # ctxNil))
    /\ [][ /\ (dpc = "classify" /\ dpc' # dpc /\ resp.statusCode \notin FinalStatuses)
               => (dpc' = "select" /\ posts' = posts
                   /\ backoff' >= ScheduleMs(posts - 1))
           /\ (dpc \in {"select", "parked"} /\ dpc' # dpc)
               => \/ dpc' = "parked"
                  \/ dpc' = "post" /\ timerFired' /\ reqBody' = "fresh"
                  \/ dpc' = "done" /\ ctxErr' # ctxNil
           /\ (dpc = "post" /\ dpc' # dpc) => posts' = posts + 1 ]_vars

\* After a transport error and a wait the task is about to POST a third time.
C7_Witness ==
    /\ dpc = "post" /\ posts = 2 /\ attempts = 2
    /\ resp = TransportError /\ ctxErr = ctxNil

\* A Retry-After value that is a count of seconds: decimal digits only.
IsSecondCount(ra) == ra # <<>> /\ \A i \in 1..Len(ra) : ra[i] \in Digits
RECURSIVE SecondCount(_)
SecondCount(ra) ==
    IF ra = <<>> THEN 0
    ELSE 10 * SecondCount(SubSeq(ra, 1, Len(ra) - 1)) + digitValue(ra[Len(ra)])
\* A Retry-After value the client cannot read as a duration in seconds.
Unreadable(ra) == ra # <<>> /\ ~ParseDuration(ra \o <<"s">>).ok

C9_BackoffSchedule ==
    /\ [](attempts = IF dpc = "post" THEN posts ELSE posts - 1)
    /\ [][ /\ (dpc = "classify" /\ dpc' = "select") =>
               /\ resp.statusCode # 429 => backoff' = ScheduleMs(posts - 1)
               /\ backoff' >= ScheduleMs(posts - 1)
           /\ attempts' # attempts =>
               /\ attempts' = attempts + 1
               /\ dpc \in {"select", "parked"} /\ timerFired' ]_vars

\* The seventh POST failed as well: the wait is 16 s for the second time.
C9_Witness ==
    /\ dpc = "select" /\ posts = 7 /\ attempts = 6
    /\ resp.statusCode = 503 /\ backoff = 16000

\* C10: if the context of the request is cancelled or passes its deadline
\* while the task waits between attempts, the task sends no further POST,
\* emits one "harvest cancelled or timed out" error and ends, the data dropped.
C10_CancelWhileWaiting ==
    /\ [](cancelLogs <= 1)
    /\ [](dpc = "done" /\ cancelLogs = 1 => resp.statusCode \notin {200, 202})
    /\ [][ /\ (dpc = "parked" /\ ctxErr = ctxNil /\ ctxErr' # ctxNil)
               => (dpc' = "done" /\ posts' = posts /\ cancelLogs' = cancelLogs + 1)
           /\ dpc = "done"
               => (dpc' = "done" /\ posts' = posts /\ cancelLogs' = cancelLogs) ]_vars

\* The deadline passed during the wait after the second POST: no third POST.
C10_Witness ==
    /\ dpc = "done" /\ cancelLogs = 1 /\ posts = 2 /\ ~timerFired
    /\ ctxErr = "context deadline exceeded" /\ backoff = 1000

----------------------------------------------------------------------------
(* Properties of the Harvester.                                            *)

InHarvestNow(t) == harvest[t].pc \notin {"idle", "returned"}

C12_WaitsForEveryTask ==
    /\ [](\A t \in HarvestThreads :
            harvest[t].pc = "returned" =>
              \A i \in DOMAIN harvest[t].tasks :
                harvest[t].tasks[i].st \in {"success", "terminal", "cancelled"})
    /\ [][\A t \in HarvestThreads :
            (harvest[t].pc = "dispatch" /\ harvest'[t].pc # "dispatch") =>
              /\ harvest'[t].pc = "wait"
              /\ Len(harvest'[t].tasks) = Len(harvest[t].reqs)
              /\ \A i \in DOMAIN harvest[t].reqs :
                    /\ harvest'[t].tasks[i].req = harvest[t].reqs[i]
                    /\ harvest'[t].tasks[i].st = "post"]_vars

\* HarvestNow has returned from a harvest of two requests that ended
\* differently.
C12_Witness ==
    /\ harvest[caller].pc = "returned"
    /\ Len(harvest[caller].tasks) = 2
    /\ harvest[caller].tasks[1].st = "success"
    /\ harvest[caller].tasks[2].st = "cancelled"

\* The records held by the buffers of the harvester.
InBuffers ==
    Ids(spans) \cup Ids(events) \cup Ids(logs) \cup Ids(rawMetrics)
      \cup UNION { Ids(aggregatedMetrics[i]) : i \in DOMAIN aggregatedMetrics }

\* The records held by the harvest of thread t: taken by a swap-out, in a
\* request built, or in the request of a task that has not returned.
InHarvest(t) ==
    Ids(harvest[t].taken)
      \cup UNION { Ids(harvest[t].aggregated[i]) : i \in DOMAIN harvest[t].aggregated }
      \cup UNION { Ids(harvest[t].reqs[i]) : i \in DOMAIN harvest[t].reqs }
      \cup UNION { Ids(harvest[t].tasks[i].req) : i \in DOMAIN harvest[t].tasks }

\* The number of places that hold record id.
Places(id) ==
    (IF id \in InBuffers THEN 1 ELSE 0)
      + Cardinality({ t \in HarvestThreads : id \in InHarvest(t) })

\* Every appended record is in one place while it is held, and in none once
\* it has met one of the given fates.
Accounted(fates) ==
    \A id \in 1..seq :
      /\ fate[id] \in {"held"} \cup fates
      /\ Places(id) = IF fate[id] = "held" THEN 1 ELSE 0

Buffered(kind) ==
    CASE kind = "metrics" ->
           Ids(rawMetrics) \cup
           UNION { Ids(aggregatedMetrics[i]) : i \in DOMAIN aggregatedMetrics }
      [] kind = "spans" -> Ids(spans)
      [] kind = "events" -> Ids(events)
      [] kind = "logs" -> Ids(logs)

\* Thread t leaves the locked region of a swap-out in this step.
SwapOutUnlocks(t) == harvest[t].pc = "locked" /\ harvest'[t].pc # "locked"

\* C14: when a swap-out of a kind releases the lock, the buffer of that kind
\* (for metrics the raw-metric list and the aggregated-metric map) is empty,
\* and the records it held are held by that swap-out and by nothing else:
\* not by the harvester, not by another harvest.
C14_SwapOutTakesAll ==
    [][\A t \in HarvestThreads, kind \in {"metrics", "spans", "events", "logs"} :
         (SwapOutUnlocks(t) /\ harvest[t].kind = kind) =>
           /\ Buffered(kind)' = {}
           /\ kind = "metrics" => rawMetrics' = <<>> /\ aggregatedMetrics' = <<>>
           /\ Buffered(kind) \subseteq InHarvest(t)'
           /\ Buffered(kind) \cap InBuffers' = {}
           /\ \A u \in HarvestThreads \ {t} :
                 Buffered(kind) \cap InHarvest(u)' = {}]_vars

\* A swap-out has just taken records while the other thread is in a harvest
\* of its own that holds records too.
C14_Witness ==
    \E t \in HarvestThreads :
      /\ event.by = t /\ event.fields # {}
      /\ harvest[t].pc = "build" /\ InHarvest(t) # {}
      /\ \E u \in HarvestThreads \ {t} : InHarvest(u) # {}

\* The records of a list that were appended by record calls (the metric of an
\* aggregated cell has no append of its own).
Appended(items) == { j \in DOMAIN items : items[j].id # 0 }

\* Records are named in the order of their appends under the lock: a list is
\* in append order when the names of its records ascend.
InAppendOrder(items) ==
    \A i, j \in Appended(items) : i < j => items[i].id < items[j].id

\* The kind of the records of a request.
KindOf(req) == req[1].rec.kind

\* Among the requests built from one group, an earlier request holds the
\* records appended earlier.
RequestsInAppendOrder(reqs) ==
    \A i, j \in DOMAIN reqs :
      /\ InAppendOrder(reqs[i])
      /\ (i < j /\ KindOf(reqs[i]) = KindOf(reqs[j])) =>
            \A a \in Appended(reqs[i]), b \in Appended(reqs[j]) :
              reqs[i][a].id < reqs[j][b].id

\* C15: the spans, events, logs and raw metrics of a harvested group are in
\* the order in which the record calls appended them under the lock: in the
\* buffer, in what a swap-out took, and in and across the requests built
\* from it.
C15_AppendOrderKept ==
    /\ InAppendOrder(spans) /\ InAppendOrder(events)
    /\ InAppendOrder(logs) /\ InAppendOrder(rawMetrics)
    /\ \A t \in HarvestThreads :
          /\ InAppendOrder(harvest[t].taken)
          /\ RequestsInAppendOrder(harvest[t].reqs)

\* A harvest has built two requests from a group of two records, while the
\* other thread is in a harvest too.
C15_Witness ==
    \E t \in HarvestThreads :
      /\ Len(harvest[t].reqs) = 2
      /\ KindOf(harvest[t].reqs[1]) = KindOf(harvest[t].reqs[2])
      /\ \E u \in HarvestThreads \ {t} : InHarvestNow(u)

\* The mutable fields of the harvester.
MutableState ==
    <<lastHarvest, rawMetrics, aggregatedMetrics, spans, events, logs>>

\* C16: a step that reads or writes a mutable field of the harvester is made
\* by the thread that holds the mutex, no field changes in a step of another
\* kind, and what a harvest works on outside the lock is no longer part of
\* the harvester's state.
C16_StateUnderLock ==
    /\ [](event.fields # {} => event.held)
    /\ [](\A t \in HarvestThreads : InHarvest(t) \cap InBuffers = {})
    /\ [][MutableState' # MutableState =>
            /\ lock \in Producers \cup HarvestThreads
            /\ event'.by = lock
            /\ event'.fields # {}]_vars

\* A producer has just appended under the lock while the other producer and
\* a harvest thread were waiting for it.
C16_Witness ==
    /\ event.by \in Producers /\ event.fields # {} /\ event.held
    /\ \E p \in Producers : producer[p].pc = "lock"
    /\ \E t \in HarvestThreads : harvest[t].pc = "lock"

\* The record entry points.
RecordCalls ==
    {"RecordSpan", "RecordEvent", "RecordLog", "RecordMetric", "AggregatedCount"}

\* The thread is building the requests of a group, starting their delivery
\* tasks, or waiting for the tasks that send them and back off.
Working(t) == harvest[t].pc \in {"build", "dispatch", "wait"}

\* C17 as stated: the mutex is not held by a thread that builds or sends, and
\* no record call invokes a sink.
C17_NoSinkCallInRecordCall ==
    /\ \A t \in HarvestThreads : Working(t) => lock # t
    /\ event.returns \in RecordCalls => event.logged = 0

\* The step in which RecordMetric returns from a harvester, having been
\* called with a Count whose value is NaN or an infinity.
InvalidCountReturns ==
    /\ h # "nil"
    /\ event'.returns = "RecordMetric"
    /\ event'.rec.Value \in {"NaN", "+Inf", "-Inf"}

\* C18: RecordMetric of a Count whose value is NaN, +Inf or -Inf leaves the
\* raw-metric buffer (and every other buffer) as it was, returns no error,
\* and makes one call of logError, which invokes the configured ErrorLogger
\* exactly once.
C18_InvalidCountLoggedOnce ==
    [][InvalidCountReturns =>
         /\ rawMetrics' = rawMetrics
         /\ MutableState' = MutableState
         /\ event'.fields = {}
         /\ event'.result = "none"
         /\ event'.logged = (IF errorLogger THEN 1 ELSE 0)]_vars

\* RecordMetric of a NaN count has returned, with the error logged once, and
\* the raw-metric buffer holds the valid count recorded before it.
C18_Witness ==
    /\ event.returns = "RecordMetric" /\ event.rec.Value = "NaN"
    /\ event.logged = 1 /\ event.result = "none"
    /\ Len(rawMetrics) = 1

\* The errors that correspond to the required fields a record leaves empty.
ErrorsOf(c) ==
    (IF c.kind = "span" /\ c.TraceID = "" THEN {errTraceIDUnset} ELSE {}) \cup
    (IF c.kind = "span" /\ c.ID = "" THEN {errSpanIDUnset} ELSE {}) \cup
    (IF c.kind = "event" /\ c.EventType = "" THEN {errEventTypeUnset} ELSE {}) \cup
    (IF c.kind = "log" /\ c.Message = "" THEN {errLogMessageUnset} ELSE {})

\* The records of a list of named records.
RecordsOf(items) == { items[j].rec : j \in DOMAIN items }

\* The records the harvester holds and the records its harvests carry: taken
\* by a swap-out, in a request built, or in the request of a delivery task.
HeldOrCarried ==
    RecordsOf(spans) \cup RecordsOf(events) \cup RecordsOf(logs) \cup
    UNION { RecordsOf(harvest[t].taken) \cup
            UNION { RecordsOf(harvest[t].reqs[i]) : i \in DOMAIN harvest[t].reqs } \cup
            UNION { RecordsOf(harvest[t].tasks[i].req) : i \in DOMAIN harvest[t].tasks }
          : t \in HarvestThreads }

\* The step in which RecordSpan, RecordEvent or RecordLog returns from a
\* harvester, having been called with a record that lacks a required field.
RejectedReturns ==
    /\ h # "nil"
    /\ event'.returns \in {"RecordSpan", "RecordEvent", "RecordLog"}
    /\ ErrorsOf(event'.rec) # {}

\* C19: RecordSpan with an empty id or trace id, RecordEvent with an empty
\* event type and RecordLog with an empty message return the error of an
\* empty field and leave every buffer as it was; no buffer and no harvest
\* ever holds such a record.
C19_RejectedNeverCarried ==
    /\ [][RejectedReturns =>
            /\ event'.result \in ErrorsOf(event'.rec)
            /\ event'.fields = {}
            /\ MutableState' = MutableState
            /\ seq' = seq]_vars
    /\ [](\A c \in HeldOrCarried : ErrorsOf(c) = {})

\* RecordSpan of a span without an id has returned the error while a
\* delivery task of the running harvest carries the record of an earlier
\* call.
C19_Witness ==
    /\ event.returns = "RecordSpan" /\ event.result = errSpanIDUnset
    /\ \E i \in DOMAIN harvest[caller].tasks :
          Task(caller, i).st = "post" /\ Task(caller, i).req # <<>>

\* The entry points of the harvester.
EntryPoints == RecordCalls \cup {"HarvestNow", "MetricAggregator"}

\* C20: on a nil harvester every entry point (RecordSpan, RecordMetric,
\* RecordEvent, RecordLog, HarvestNow, MetricAggregator) returns at once with
\* nil or nothing: no field, lock or buffer changes, no record is named, no
\* request is built, no delivery task is started and no sink is called.
C20_NilHarvesterDoesNothing ==
    [][h = "nil" =>
         /\ event'.returns \in EntryPoints
         /\ event'.result \in {errNil, "none"}
         /\ event'.fields = {} /\ event'.logged = 0
         /\ <<MutableState, lock, seq, fate>>' = <<MutableState, lock, seq, fate>>
         /\ \A p \in Producers : producer'[p] = IdleProducer
         /\ \A t \in HarvestThreads :
               /\ harvest'[t].pc \in {"idle", "returned"}
               /\ harvest'[t].tasks = <<>> /\ harvest'[t].reqs = <<>>]_vars

\* HarvestNow has returned on a nil harvester after two calls of the
\* producers.
C20_Witness ==
    /\ h = "nil"
    /\ event.returns = "HarvestNow"
    /\ calls = MaxCalls /\ harvests = 1

----------------------------------------------------------------------------
(* Properties of the periodic harvest.                                     *)

\* The step is a swap-out: a harvest thread has touched buffers of the
\* harvester under the lock.
SwapOutStep == event'.by \in HarvestThreads /\ event'.fields # {}

\* Thread t has delivery tasks that have not returned.
Sending(t) ==
    \E i \in DOMAIN harvest[t].tasks : harvest[t].tasks[i].st \notin TaskReturned

\* C21: with HarvestPeriod zero there is no harvestRoutine and no HarvestNow
\* in the background: every swap-out is a step of a HarvestNow call of the
\* program, and delivery tasks run only while that call has not returned.
C21_ZeroPeriodNoBackgroundHarvest ==
    /\ [](harvestPeriod = 0 =>
            /\ routine.pc = "none"
            /\ harvest[background] = IdleHarvest
            /\ \A t \in HarvestThreads :
                  Sending(t) => t = caller /\ harvest[caller].pc = "wait")
    /\ [][(harvestPeriod = 0 /\ SwapOutStep) =>
            /\ event'.by = caller
            /\ InHarvestNow(caller)]_vars

\* With HarvestPeriod zero, the second HarvestNow call of the program waits
\* for a delivery task that is posting.
C21_Witness ==
    /\ harvestPeriod = 0 /\ harvests = 2
    /\ harvest[caller].pc = "wait"
    /\ \E i \in DOMAIN harvest[caller].tasks : Task(caller, i).st = "post"

\* The records that have reached a delivery task, or were given up on the
\* way to one.
Dispatched ==
    { id \in 1..Len(fate) : fate[id] # "held" } \cup
    UNION { UNION { Ids(harvest[t].tasks[i].req) : i \in DOMAIN harvest[t].tasks }
            : t \in HarvestThreads }

\* C22: with a non-zero HarvestPeriod the routine sleeps for a jitter of at
\* most min(period, 3 s) and then starts a harvest on every tick, so that a
\* record in a buffer, with a tick still to come, eventually is swapped out
\* and reaches a delivery task (or is given up by the splitter).
C22_PeriodicHarvestTakesAll ==
    /\ [](routine.pc = "sleep" =>
            routine.jitter <= minDuration(harvestPeriod, 3 * Second))
    /\ \A id \in 1..MaxCalls :
          (harvestPeriod # 0 /\ id \in InBuffers /\ harvests < MaxHarvests)
             ~> (id \in Dispatched)

----------------------------------------------------------------------------
(* Properties of the request factory.                                      *)

\* The compressed payload of a call of BuildRequest with the given batches.
CompressedBody(batches) ==
    CompressWithWriter(bufferRequestBytes(<<>>, batches), <<>>)

\* C23: every POST of a request, the first and each retry, carries the whole
\* compressed body of the request, ContentLength bytes long; before an
\* attempt the body reader of the request is at the start of these bytes.
C23_EveryAttemptCarriesWholeBody ==
    \A i \in DOMAIN requests :
       /\ requests[i].posts > 0 =>
            /\ requests[i].carried = CompressedBody(requests[i].batches)
            /\ Len(requests[i].carried) = requests[i].ContentLength
       /\ requests[i].st = "post" =>
            Remaining(requests[i].Body) = CompressedBody(requests[i].batches)

\* A request has been posted a second time, after the timer of its first
\* retry expired, and its reader is at the end of the body.
C23_Witness ==
    \E i \in DOMAIN requests :
       /\ requests[i].posts = 2 /\ requests[i].attempts = 1
       /\ requests[i].carried # <<>>
       /\ Remaining(requests[i].Body) = <<>>

\* C24: for every request built, ContentLength is the number of bytes of the
\* compressed body, which is what the body of the request, read from its
\* start, and the reader that GetBody returns deliver.
C24_ContentLengthIsBodyLength ==
    \A i \in DOMAIN requests :
       /\ requests[i].ContentLength = Len(CompressedBody(requests[i].batches))
       /\ requests[i].ContentLength =
             Len(Remaining(getBody(requests[i].requestBytes)))
       /\ requests[i].posts = 0 =>
             requests[i].ContentLength = Len(Remaining(requests[i].Body))

\* Two requests with bodies of different lengths have been built.
C24_Witness ==
    /\ Len(requests) = 2
    /\ requests[1].ContentLength = 5
    /\ requests[2].ContentLength = 6

\* C25: the bytes of a request built never change, they are no array of a
\* pooled buffer, and they uncompress to the payload of the call that built
\* the request, whatever other calls do with the buffers of the pools.
C25_RequestBytesPrivate ==
    /\ [][\A i \in DOMAIN requests :
            mem'[requests[i].requestBytes] = mem[requests[i].requestBytes]]_vars
    /\ [](\A i \in DOMAIN requests :
            /\ requests[i].requestBytes
                  \notin UncompressedBuffers \cup CompressedBuffers
            /\ Uncompress(mem[requests[i].requestBytes]) =
                  bufferRequestBytes(<<>>, requests[i].batches))

\* A second call has compressed another payload into the pooled buffer the
\* first request was built from (the other buffer was never used), while a
\* call of the other thread is under way.
C25_Witness ==
    /\ Len(requests) = 1
    /\ \E b \in Builders :
         /\ builder[b].pc = "copy"
         /\ mem[builder[b].poolEntry] # mem[requests[1].requestBytes]
         /\ \A z \in CompressedBuffers \ {builder[b].poolEntry} : mem[z] = <<>>

----------------------------------------------------------------------------
(* Properties of concurrent harvests.                                      *)

\* The records in the requests of the harvest of thread t, built or handed
\* to a delivery task.
InRequests(t) ==
    UNION { Ids(harvest[t].reqs[i]) : i \in DOMAIN harvest[t].reqs }
      \cup UNION { Ids(harvest[t].tasks[i].req) : i \in DOMAIN harvest[t].tasks }

\* The number of requests of the harvest of thread t that carry record id.
RequestsWith(t, id) ==
    Cardinality({ i \in DOMAIN harvest[t].reqs : id \in Ids(harvest[t].reqs[i]) })
      + Cardinality({ i \in DOMAIN harvest[t].tasks :
                        id \in Ids(harvest[t].tasks[i].req) })

\* C26: whatever the interleaving of record calls and HarvestNow calls, a
\* record leaves the buffers only in a swap-out, which holds it from then on;
\* it never comes back to a buffer, so no second swap-out takes it; no two
\* harvests hold the same record, and a record is in at most one request.
\* The requests built from what a swap-out took carry every record taken.
C26_TakenByExactlyOneSwapOut ==
    /\ [](\A t, u \in HarvestThreads :
            t # u => InHarvest(t) \cap InHarvest(u) = {})
    /\ [](\A t \in HarvestThreads, id \in 1..seq :
            id \in InRequests(t) =>
              /\ RequestsWith(t, id) = 1
              /\ id \notin InBuffers)
    /\ [][\A id \in 1..seq :
            /\ id \notin InBuffers => id \notin InBuffers'
            /\ (id \in InBuffers /\ id \notin InBuffers') =>
                  \E t \in HarvestThreads :
                     event'.by = t /\ id \in InHarvest(t)']_vars
    /\ [][\A t \in HarvestThreads :
            (harvest[t].pc = "build" /\ harvest'[t].reqs # harvest[t].reqs) =>
               InHarvest(t) \subseteq InRequests(t)']_vars

\* Each of the two threads has built a request, from the record its own
\* swap-out took.
C26_Witness ==
    \E t, u \in HarvestThreads :
      /\ t # u
      /\ InRequests(t) # {} /\ InRequests(u) # {}

----------------------------------------------------------------------------
(* Properties of the splitter: duplicated records.                         *)

\* The produced requests that carry the record.
CarriedBy(rec) ==
    { i \in 1..Len(ret.reqs) :
        rec \in Range(RequestRecs(ret.reqs[i], <<rec[1], rec[2]>>)) }

InputRecords == UNION { Range(input[k[1]][k[2]].recs) : k \in GroupKeys }

\* C27 as stated: when the splitter succeeds, no input record is carried by
\* more than one produced request, also when a single batch holds several
\* record groups of which only some can be split.
C27_NoRecordCarriedTwice ==
    Succeeded => \A rec \in InputRecords : Cardinality(CarriedBy(rec)) <= 1

----------------------------------------------------------------------------
(* Properties of the harvest clock.                                        *)

\* commonBlock := &metricCommonBlock{timestamp: lastHarvest, interval:
\* now.Sub(lastHarvest)} of the swap-out of metrics in thread t, from the
\* clock value HarvestNow read and the lastHarvest the locked region took.
metricCommonBlock(t) ==
    [timestamp |-> harvest[t].lastHarvest,
     interval |-> harvest[t].now - harvest[t].lastHarvest]

\* Thread t builds the requests of metrics it took.
BuildsMetrics(t) == harvest[t].pc = "build" /\ harvest[t].kind = "metrics"

\* C28 as stated: lastHarvest never decreases and no metrics common block
\* carries a negative interval, also when several calls of HarvestNow run at
\* the same time and reach the lock in another order than they read the clock.
C28_LastHarvestNeverDecreases ==
    /\ [][lastHarvest' >= lastHarvest]_vars
    /\ [](\A t \in HarvestThreads :
            BuildsMetrics(t) => metricCommonBlock(t).interval >= 0)

----------------------------------------------------------------------------
(* Properties of the splitter: a half that cannot be split.                *)

\* The batches were built into an oversize request and no entry of them
\* yields a split.
CannotBeSplit(batches) ==
    batches \in tooLarge /\ ~splitBatches(batches).payloadWasSplit

\* The second half of a division was found oversize and cannot be split, after
\* the first half was built into requests within the bound.
SecondHalfFailed(batches) ==
    LET sb == splitBatches(batches)
    IN  /\ batches \in tooLarge /\ sb.payloadWasSplit
        /\ sb.s1 \notin tooLarge
        /\ CannotBeSplit(sb.s2)

\* C29: if any half produced during splitting cannot be brought under the
\* bound, the splitter returns the UnableToSplit error and no requests at all,
\* also when other halves were already built within the bound; and a call
\* that returns an error returns no requests.
C29_OneHalfFailsAllFail ==
    /\ (ret.set /\ ret.err # errNil) => ret.reqs = <<>>
    /\ (SplitDone /\ \E x \in tooLarge : x # input /\ CannotBeSplit(x)) =>
          ret = Return(<<>>, errUnableToSplit)

\* The input was divided, its first half was built within the bound and its
\* second half could not be split: the run ends with the error.
C29_Witness ==
    /\ SplitDone /\ ret.set
    /\ SecondHalfFailed(input)

----------------------------------------------------------------------------
(* Properties of the logger callbacks.                                     *)

\* C30 as stated: no logger callback the program supplied is invoked while the
\* harvester mutex is held.
C30_NoLoggerCallUnderLock ==
    event.logged > 0 => ~event.held

----------------------------------------------------------------------------
(* Properties of the metrics common block.                                 *)

\* Thread t leaves the locked region of swapOutMetrics with metrics to build.
TakesMetrics(t) ==
    /\ harvest[t].pc = "locked" /\ harvest[t].kind = "metrics"
    /\ BuildsMetrics(t)'

\* C31 as stated: the common block of a metrics harvest carries as timestamp
\* the time of the previous metrics swap-out (or of the creation of the
\* harvester) and as interval the time of this harvest minus that time, so
\* that the window of the block starts where the window before it ended and
\* does not reach back into it.
C31_AdjacentIntervals ==
    [][\A t \in HarvestThreads :
         TakesMetrics(t) =>
            /\ metricCommonBlock(t)'.timestamp = lastHarvest
            /\ metricCommonBlock(t)'.interval = harvest[t].now - lastHarvest
            /\ metricCommonBlock(t)'.timestamp + metricCommonBlock(t)'.interval
                  = lastHarvest'
            /\ metricCommonBlock(t)'.interval >= 0]_vars

----------------------------------------------------------------------------
(* Properties of the metrics in the buffer.                                *)

\* The invariant of the data model for a metric: a finite value for a Count
\* and a Gauge, a Timestamp that is set for a Gauge; for a Summary a count of
\* at least 0, a finite sum, and min and max that are finite or NaN.
Finite(v) == v \in {"finite", "negative"}
DataModelInvariant(m) ==
    CASE m.type = "count" -> Finite(m.Value)
      [] m.type = "gauge" -> Finite(m.Value) /\ m.Timestamp # "zero"
      [] m.type = "summary" ->
            /\ m.Count = "finite"
            /\ Finite(m.Sum)
            /\ m.Min \in {"finite", "negative", "NaN"}
            /\ m.Max \in {"finite", "negative", "NaN"}

\* C32 as stated: every metric held in the buffer of raw metrics satisfies the
\* invariant of its data model.
C32_BufferedMetricsValid ==
    \A i \in DOMAIN rawMetrics : DataModelInvariant(rawMetrics[i].rec)

----------------------------------------------------------------------------
(* Properties of a swap-out whose requests cannot be built.                *)

\* The data thread t took in its swap-out, as record names.
TakenBy(t) ==
    Ids(harvest[t].taken)
      \cup UNION { Ids(harvest[t].aggregated[i]) : i \in DOMAIN harvest[t].aggregated }

\* The step in which the build or the split of the requests of the kind thread
\* t swapped out fails: the thread leaves the swap-out with no request more.
BuildFailed(t) ==
    /\ harvest[t].pc = "build"
    /\ harvest'[t].pc # "build"
    /\ harvest'[t].reqs = harvest[t].reqs

\* C33: if building or splitting fails for one record kind during a harvest,
\* the harvester logs one error (when an error logger is configured), gives
\* up the records of that kind it swapped out without putting them back into
\* a buffer, keeps the requests built for the kinds before and goes on to the
\* swap-out of the next kind, or to the dispatch of the requests.
C33_FailedKindDroppedOthersSent ==
    [][\A t \in HarvestThreads :
         BuildFailed(t) =>
            /\ event'.logged = (IF errorLogger THEN 1 ELSE 0)
            /\ ~event'.held
            /\ \A id \in TakenBy(t) :
                  /\ fate'[id] = "splitter"
                  /\ id \notin InBuffers'
                  /\ \A u \in HarvestThreads : id \notin InHarvest(u)'
            /\ <<rawMetrics, aggregatedMetrics, spans, events, logs>>' =
                  <<rawMetrics, aggregatedMetrics, spans, events, logs>>
            /\ harvest'[t].kind = NextKind(harvest[t].kind)
            /\ harvest'[t].pc =
                  (IF harvest[t].kind = "logs" THEN "dispatch" ELSE "lock")]_vars

\* In the one harvest of the run the records of one kind were given up by a
\* failed build, with the error logged, and a request of another kind is
\* being sent.
C33_Witness ==
    /\ harvests = 1 /\ errorLogger
    /\ \E id \in 1..seq : fate[id] = "splitter"
    /\ \E i \in DOMAIN harvest[caller].tasks :
          harvest[caller].tasks[i].st \notin TaskReturned

----------------------------------------------------------------------------
(* Properties of the splitter: batches before entries.                     *)

\* The step in which the call on top of the stack divides its oversize input.
Divides ==
    /\ stack # <<>> /\ Top.pc = "split"
    /\ Len(stack') = Len(stack) /\ Top'.pc = "loop"

\* C34: while an oversize input holds more than one batch, the splitter
\* divides the batch list only, into the first floor(len/2) batches and the
\* rest, every batch kept as it is; a half holds a batch that is not a batch
\* of the input (an entry was asked to split) only when the input is a single
\* batch.
C34_BatchesBeforeEntries ==
    [][Divides =>
         LET parent == Top.batches
             halves == Top'.halves
         IN  /\ Len(parent) > 1 =>
                  /\ halves[1] \o halves[2] = parent
                  /\ Len(halves[1]) = Len(parent) \div 2
             /\ (\E i \in 1..2 : Range(halves[i]) \ Range(parent) # {}) =>
                  Len(parent) = 1]_vars

\* Three batches were divided into the first batch and the two others, and
\* the first batch, oversize too, was then divided along its entries.
C34_Witness ==
    /\ Len(stack) >= 2
    /\ stack[1].pc = "loop" /\ Len(stack[1].batches) = 3
    /\ Len(stack[1].halves[1]) = 1 /\ Len(stack[1].halves[2]) = 2
    /\ stack[2].pc = "loop" /\ Len(stack[2].batches) = 1
    /\ stack[2].halves[1] # stack[2].batches

----------------------------------------------------------------------------
(* Properties of split() on a record group.                                *)

\* C35: split() on a record group of n records returns the empty token when
\* n < 2 (the group is then put whole into both halves, or the call fails with
\* UnableToSplit when no entry splits), and for n >= 2 two groups, the first
\* with the first floor(n/2) records and the second with the other
\* n - floor(n/2) records, in the original order.
C35_SplitHalvesRecords ==
    /\ [][(Divides /\ Len(Top.batches) = 1) =>
            LET batch == Top.batches[1]
                p1 == Top'.halves[1][1]
                p2 == Top'.halves[2][1]
            IN  /\ Len(p1) = Len(batch) /\ Len(p2) = Len(batch)
                /\ \A k \in DOMAIN batch :
                     LET n == Len(batch[k].recs)
                     IN  batch[k].kind = "group" =>
                           IF n < 2 THEN p1[k] = batch[k] /\ p2[k] = batch[k]
                           ELSE /\ p1[k].kind = "group" /\ p2[k].kind = "group"
                                /\ p1[k].recs \o p2[k].recs = batch[k].recs
                                /\ Len(p1[k].recs) = n \div 2
                                /\ Len(p2[k].recs) = n - (n \div 2)]_vars
    /\ [][(stack # <<>> /\ Top.pc = "split" /\ Len(Top.batches) = 1
             /\ Len(stack') < Len(stack)) =>
            \A k \in DOMAIN Top.batches[1] : Len(Top.batches[1][k].recs) < 2]_vars

\* A batch of a group of three records and a group of one record was divided:
\* one record and two records of the first group, the second group in both.
C35_Witness ==
    \E i \in DOMAIN stack :
       /\ stack[i].pc = "loop" /\ Len(stack[i].batches) = 1
       /\ Len(stack[i].batches[1]) = 2
       /\ Len(stack[i].batches[1][1].recs) = 3
       /\ Len(stack[i].batches[1][2].recs) = 1
       /\ stack[i].batches[1][2].kind = "group"
       /\ Len(stack[i].halves[1][1][1].recs) = 1
       /\ Len(stack[i].halves[2][1][1].recs) = 2
       /\ stack[i].halves[2][1][2] = stack[i].batches[1][2]

----------------------------------------------------------------------------
(* Properties of the default oversize predicate.                           *)

\* The step in which a call has built its request and requestNeedsSplit has
\* answered.
Answered == stack # <<>> /\ Top.pc = "build" /\ ret'.err # errBuild

\* The request of the step is treated as oversize: the call goes on to divide
\* its input instead of returning the request.
TreatedAsOversize == Len(stack') = Len(stack) /\ Top'.pc = "split"

\* C36 as stated: with the default predicate a built request is treated as
\* oversize exactly when its ContentLength is at least 1 MiB (1,048,576).
C36_OversizeFromOneMiB ==
    [][Answered => (TreatedAsOversize <=> lastLength' >= 1048576)]_vars

\* C36 amended: with the default predicate a built request is treated as
\* oversize exactly when its ContentLength is at least 1,000,000 bytes.
C36_OversizeFromOneMillion ==
    [][Answered => (TreatedAsOversize <=> lastLength' >= 1000000)]_vars

\* A request of 1,048,575 bytes, below 1 MiB, is being divided.
C36_Witness ==
    /\ stack # <<>> /\ Top.pc = "split"
    /\ lastLength = 1048575
    /\ Top.batches \in tooLarge

----------------------------------------------------------------------------
(* Properties of the options of a request factory.                         *)

\* The last call was made with the gzip-level option alone.
GzipLevelCall(level) ==
    call.options = <<[op |-> "WithGzipCompressionLevel", arg |-> level]>>

\* C37 as stated: the gzip-level option replaces the compressor pool of the
\* factory it configures when the level is a valid gzip level, and leaves the
\* pool as it is when the level is invalid.
C37_ValidLevelReplacesPool ==
    \A level \in GzipLevels :
        GzipLevelCall(level) =>
            call.configured.zippers =
                (IF level >= HuffmanOnly /\ level <= BestCompression
                 THEN newGzipPool(level) ELSE factory.zippers)

\* C39: the options passed to a build call are applied to the factory of that
\* call alone: the key, the name of the key header, the endpoint, the scheme,
\* the user agent and the compressor pool of the factory are after the call
\* what they were before it, whether the call returns a request, an error or
\* panics, and a call without options builds its request from them.
C39_OptionsLeaveFactoryAlone ==
    [][builds' # builds =>
         /\ factory' = factory
         /\ (call'.options = <<>> /\ call'.outcome = "request") =>
               requestOf(call'.configured) = requestOf(factory)]_vars

\* A second call, made with options that changed the endpoint for the call,
\* has failed to configure; the factory has the endpoint it had.
C39_Witness ==
    /\ builds = 2
    /\ call.outcome = "error"
    /\ call.configured.endpoint = "localhost"
    /\ factory.endpoint # "localhost"

----------------------------------------------------------------------------
(* Properties of the common attributes of the Config.                      *)

\* The last step built the requests of the kind from its batch.
BuiltRequestsOf(kind) ==
    \E i \in DOMAIN event.entries : event.entries[i].key = kind

\* C38 as stated: the common attributes of the Config are applied to metrics
\* only: the batch a span request is built from holds no common block
\* carrying them.
C38_SpansCarryNoCommonAttributes ==
    BuiltRequestsOf("spans") =>
        \A i \in DOMAIN event.entries :
            event.entries[i].key = "common" =>
                event.entries[i].attributes # commonAttributes

----------------------------------------------------------------------------
(* Properties of the HarvestNow calls of the periodic task.                *)

====
